---- MODULE Spec2Model ----
(***************************************************************************)
(* A model of jumpboot's child side: the command/response server           *)
(* (JSONQueueServer), the framed transport under it (JSONQueue) and the    *)
(* method wrapper of auto-exposed methods.                                 *)
(*                                                                         *)
(* Spec          the server: dispatch loop, handler tasks, outbound calls  *)
(* SpecTransport the transport: put on one end, get on the peer end        *)
(* SpecWrapper   register_method's wrapper applied to one payload          *)
(***************************************************************************)
EXTENDS Integers, Sequences, FiniteSets, TLC

(***************************************************************************)
(* Bounds of the model.                                                    *)
(***************************************************************************)
\* inbound messages the host writes in one run
MaxIn == 2
\* outbound calls (request / async_request) made in one run
MaxCalls == 2
\* put calls made on the transport in one run
MaxPuts == 2
\* submissions the host writes to the REPL in one run
MaxSubs == 3
\* lines of one submission
MaxLines == 2
\* records the entry module writes to the status channel itself
MaxRecords == 2
\* characters an OS pipe holds before a write to it would block
PipeRoom == 6
\* the timeout of a blocking get, and how long a run is watched, in clock
\* ticks
GetTimeout == 1
MaxTicks == 3
\* frames written to the out pipe by the threads of one server in one run
MaxWrites == 3
\* calls of request and async_request in one run
MaxMints == 4
\* get calls made on one queue in one run
MaxGets == 3
\* submissions written before the host closes the in pipe of the REPL, and
\* turns of the reading loop of run_repl watched after that
MaxSubsBeforeEOF == 2
MaxSpins == 3
\* calls of start that find the server stopped, in one run
MaxStarts == 3

(***************************************************************************)
(* Python values.  A string-valued slot holds a TLA+ string, NoneStr       *)
(* standing for Python's None.  A request id is a sequence of characters,  *)
(* so that the prefix test of the dispatch loop is computed, NoneId        *)
(* standing for None.                                                      *)
(***************************************************************************)
NoneStr == "<None>"
NoneId == <<"<None>">>

\* f"py-{self._next_request_id}"
PyId(n) == <<"p", "y", "-">> \o <<ToString(n)>>

\* request_id.startswith("py-")
StartsWithPy(s) ==
  /\ Len(s) >= 3
  /\ SubSeq(s, 1, 3) = <<"p", "y", "-">>

\* the truth value Python gives a request id: None and "" are false
Truthy(rid) == rid # NoneId /\ rid # <<>>

(***************************************************************************)
(* A framed message is a Python dict over a fixed universe of keys: has    *)
(* is the set of keys present, the other fields hold the values.           *)
(***************************************************************************)
EmptyDict ==
  [has |-> {}, command |-> NoneStr, data |-> NoneStr, request_id |-> NoneId,
   result |-> NoneStr, error |-> <<>>, traceback |-> <<>>, status |-> NoneStr]

\* d[k] = v
DictSet(d, k, v) == [d EXCEPT ![k] = v, !.has = @ \cup {k}]

\* message.get("command"), message.get("data"): None when the key is absent
GetStr(d, k) == IF k \in d.has THEN d[k] ELSE NoneStr
\* message.get("request_id")
GetId(d) == IF "request_id" \in d.has THEN d.request_id ELSE NoneId

\* what a handler hands back: None, a dict, or any other value
PyNone == [kind |-> "none", s |-> NoneStr, d |-> EmptyDict]
PyDict(d) == [kind |-> "dict", s |-> NoneStr, d |-> d]
PyScalar(s) == [kind |-> "scalar", s |-> s, d |-> EmptyDict]

\* what a handler raises: an exception with its class name and its message
NoExc == [cls |-> "", msg |-> ""]
Exc(cls, msg) == [cls |-> cls, msg |-> msg]

\* str(e): the message alone
StrOfExc(e) == <<e.msg>>
\* traceback.format_exc(): the frames, then "<class name>: <message>"
FormatExc(e) == <<"Traceback (most recent call last):", e.cls, e.msg>>

\* how a call ends: it returns a value or raises an exception
NoOutcome == [kind |-> "none", value |-> PyNone, exc |-> NoExc]
Returned(v) == [kind |-> "return", value |-> v, exc |-> NoExc]
Raised(e) == [kind |-> "raise", value |-> PyNone, exc |-> e]

\* a mapping from names to values, and the part of it on a set of names
EmptyMap == [k \in {} |-> 0]
Restrict(f, S) == [k \in (DOMAIN f) \cap S |-> f[k]]

\* the data of a request as a method wrapper tells it apart: None, a dict
\* or anything else
NoData == [kind |-> "none", m |-> EmptyMap, v |-> 0]
DictData(m) == [kind |-> "dict", m |-> m, v |-> 0]
OtherData(v) == [kind |-> "other", m |-> EmptyMap, v |-> v]

(***************************************************************************)
(* The server's state.                                                     *)
(***************************************************************************)
VARIABLES
  running,           \* self.running
  loop_alive,        \* self.loop is running (run_forever has not returned)
  stop_scheduled,    \* loop.stop has been scheduled with call_soon_threadsafe
  exited,            \* os._exit(0) has been called
  command_handlers,  \* self.command_handlers: command name -> handler
  default_handler,   \* self.default_handler: NoneStr or a handler
  response_futures,  \* self._response_futures: request id -> future (its call)
  next_request_id,   \* self._next_request_id
  in_pipe,           \* messages written by the host, not yet read
  in_closed,         \* the host has closed its end of the in pipe
  eof_reads,         \* how many reads of the in pipe raised EOFError
  host_sent,         \* how many messages the host has written
  out_pipe,          \* frames written to the out pipe, oldest first
  out_by,            \* for each frame of out_pipe, the task that wrote it (0: none)
  tasks,             \* the _process_command tasks created, oldest first
  calls,             \* the outbound calls made, oldest first
  discarded          \* messages with the child's prefix that matched no awaiter

svars ==
  <<running, loop_alive, stop_scheduled, exited, command_handlers,
    default_handler, response_futures, next_request_id, in_pipe, in_closed,
    eof_reads, host_sent, out_pipe, out_by, tasks, calls, discarded>>

(***************************************************************************)
(* The transport's state: one direction of the pipe pair, one end putting  *)
(* and the peer end getting.                                               *)
(***************************************************************************)
VARIABLES
  wire,         \* the characters written to the pipe and not yet read
  wire_closed,  \* the writing end has been closed
  put_log,      \* the values of the puts that succeeded, oldest first
  put_errors,   \* how many puts raised ValueError
  got_log       \* the outcomes of the gets, oldest first

tvars == <<wire, wire_closed, put_log, put_errors, got_log>>

(***************************************************************************)
(* The state of one call of a method wrapper made by register_method.      *)
(***************************************************************************)
VARIABLES
  w_method,      \* the name of the method wrapped
  w_data,        \* the data of the request
  w_request_id,  \* the request id of the request
  w_pc,          \* "idle", "coroutine", "returned", "raised" or "done"
  w_kwargs,      \* the keyword arguments extracted from the data
  w_args,        \* the arguments of the method as the call bound them
  w_result,      \* what the wrapper returned or raised
  w_frames       \* the frames _process_command wrote for the call

wvars ==
  <<w_method, w_data, w_request_id, w_pc, w_kwargs, w_args, w_result,
    w_frames>>

(***************************************************************************)
(* The state of one construction of a server with its methods exposed, and *)
(* of the __get_methods__ request made to it.                              *)
(***************************************************************************)
VARIABLES
  x_pc,        \* "new", "built" (constructed) or "asked"
  x_expose,    \* the expose_methods argument of the constructor
  x_members,   \* the bound methods of the instance: name -> parameters
  x_handlers,  \* self.command_handlers: name -> who registered it
  x_exposed,   \* the names _expose_methods registered
  x_reply      \* the "methods" of the reply: name -> parameter infos

evars == <<x_pc, x_expose, x_members, x_handlers, x_exposed, x_reply>>

(***************************************************************************)
(* The state of the REPL script.                                           *)
(***************************************************************************)
VARIABLES
  r_pc,         \* "reading" (in the loop of run_repl) or "ended"
  r_in,         \* the submissions written to the in pipe, not yet read
  r_sent,       \* how many submissions the host has written
  r_out_open,   \* the host still reads the out pipe
  r_capture,    \* repl.__CAPTURE_COMBINED__
  r_stale,      \* code_buffer still holds a flag line whose eval raised
  r_buffer,     \* repl.buffer: the lines of a block not yet complete
  r_executed,   \* the calls of conrun, oldest first
  r_status      \* the records written to the status pipe, oldest first

rvars ==
  <<r_pc, r_in, r_sent, r_out_open, r_capture, r_stale, r_buffer,
    r_executed, r_status>>

(***************************************************************************)
(* The state of the bootstrap script: its main thread and its watchdog.    *)
(***************************************************************************)
VARIABLES
  b_pc,             \* the main thread: "start", "exec", "finally", "done",
                    \* or "killed" once os._exit(1) has been called
  b_platform,       \* sys.platform as the watchdog tests it: "win32" or not
  b_host,           \* the host process: "alive"; "early" when it ended
                    \* before the watchdog started; "gone" when it ended
                    \* after that, "reused" when its process id has since
                    \* been given to another process
  b_watchdog,       \* the monitor thread: "off", "probe" or "sleep"
  b_parent,         \* parent_pid of the watchdog: "host" or "init"
  b_ended_by,       \* how the entry module ended: "" while it has not
  b_entry_records,  \* how many records the entry module wrote itself
  b_status          \* the records on the status channel, oldest first

bvars ==
  <<b_pc, b_platform, b_host, b_watchdog, b_parent, b_ended_by,
    b_entry_records, b_status>>

(***************************************************************************)
(* The state of a JSONQueue on two OS pipes: a blocking get with a timeout *)
(* on its read pipe, and puts on its write pipe, which holds PipeRoom      *)
(* characters until the peer reads them.                                   *)
(***************************************************************************)
VARIABLES
  p_pc,                \* "new" or "open" (the queue is constructed)
  p_read_nonblocking,  \* O_NONBLOCK is set on the read pipe
  p_write_nonblocking, \* O_NONBLOCK is set on the write pipe
  p_get,               \* the get: "idle", "waiting" (in readline), "value",
                       \* "TimeoutError" or "EOFError"
  p_clock,             \* clock ticks since the get was issued
  p_peer_wrote,        \* the peer has written a line to the read pipe
  p_pipe,              \* the characters in the write pipe, not yet read
  p_buffer,            \* the characters write_pipe holds in its buffer
  p_seen,              \* the characters the peer has read
  p_retry,             \* the frame a put without timeout is retrying
  p_puts               \* the puts that ended: their frame and outcome

pvars ==
  <<p_pc, p_read_nonblocking, p_write_nonblocking, p_get, p_clock,
    p_peer_wrote, p_pipe, p_buffer, p_seen, p_retry, p_puts>>

(***************************************************************************)
(* The out pipe of a server as its threads write to it: the dispatch       *)
(* thread (send_response, async_request) and another thread (request).     *)
(***************************************************************************)
VARIABLES
  c_pc,      \* for each thread: "idle", or "written" between its write
             \* and its flush
  c_buffer,  \* the text pipe_out holds, written and not yet flushed
  c_wire,    \* the characters on the out pipe
  c_frames   \* the frames written, in the order of the write calls

cvars == <<c_pc, c_buffer, c_wire, c_frames>>

(***************************************************************************)
(* The correlation ids of one server as its threads mint them: the         *)
(* dispatch thread (async_request) and other threads (request).            *)
(***************************************************************************)
VARIABLES
  m_pc,      \* for each thread: where it is in the with self._lock block
  m_lock,    \* the thread that holds self._lock, or NoneStr
  m_next,    \* self._next_request_id
  m_id,      \* for each thread: the request_id it has formatted
  m_load,    \* for each thread: the counter value its += has loaded
  m_minted   \* the ids of the calls that have left the block, in order

mvars == <<m_pc, m_lock, m_next, m_id, m_load, m_minted>>

(***************************************************************************)
(* A JSONQueue read by its blocking get while the peer writes its lines in *)
(* pieces.                                                                 *)
(***************************************************************************)
VARIABLES
  l_pc,       \* "new" until the queue is constructed over its read_pipe
  l_reader,   \* what read_pipe.readline does when no whole line is there
  l_todo,     \* the characters the peer has still to write
  l_pipe,     \* the characters written and not yet read
  l_get,      \* "idle", or "reading" while a get is in its loop
  l_buffer,   \* the local buffer of the get in progress
  l_start,    \* the number of newlines read when the get in progress began
  l_elapsed,  \* time.time() - start_time of the get in progress
  l_read,     \* the number of newlines read from the pipe so far
  l_results   \* what the gets that ended handed to their callers, in order

lvars == <<l_pc, l_reader, l_todo, l_pipe, l_get, l_buffer, l_start,
           l_elapsed, l_read, l_results>>

(***************************************************************************)
(* The loader of the bootstrap script: the catalog and the import system.  *)
(***************************************************************************)
VARIABLES
  d_pc,       \* "start", "catalog", "eager", "user", or "failed"
  d_bundle,   \* program_data as read from the program pipe
  d_catalog,  \* what load_program_data returned or raised
  d_loaded,   \* the names in custom_finder.loaded_modules
  d_sys,      \* the catalog names in sys.modules
  d_runs      \* for each catalog name, how many times its source was run

dvars == <<d_pc, d_bundle, d_catalog, d_loaded, d_sys, d_runs>>

(***************************************************************************)
(* The in pipe of the REPL at its end.                                     *)
(***************************************************************************)
VARIABLES
  q_in_closed,  \* the host has closed its end of the in pipe
  q_linecount   \* linecount of run_repl while it reads at the end

qvars == <<q_in_closed, q_linecount>>

(***************************************************************************)
(* The dispatch-loop tasks of one server over its life.                    *)
(***************************************************************************)
VARIABLES
  k_running,       \* self.running
  k_loop_running,  \* self.loop.is_running()
  k_loops,         \* the _server_loop tasks created, each with where it is
  k_in,            \* the lines in the in pipe, by the command they carry
  k_sent,          \* the number of lines the host has written
  k_eof            \* the host has closed the in pipe

kvars == <<k_running, k_loop_running, k_loops, k_in, k_sent, k_eof>>

(***************************************************************************)
(* The dispatch loop reading the lines of the in pipe as text.             *)
(***************************************************************************)
VARIABLES
  h_running,     \* the _server_loop task is in its while loop
  h_in,          \* the lines in the in pipe, as written
  h_sent,        \* the number of lines the host has written
  h_read,        \* the lines the loop has read, in order
  h_dispatched,  \* the tasks created by the loop: command, data, request_id
  h_out          \* the frames written to the out pipe

hvars == <<h_running, h_in, h_sent, h_read, h_dispatched, h_out>>

nvars == <<lvars, dvars, qvars, kvars, hvars>>

ovars == <<evars, rvars, bvars, pvars, cvars, mvars, nvars>>

vars == <<svars, tvars, wvars, ovars>>

\* the variables of the other specifications, fixed while one of them runs
TransportIdle ==
  /\ wire = <<>> /\ wire_closed = FALSE /\ put_log = <<>>
  /\ put_errors = 0 /\ got_log = <<>>
WrapperIdle ==
  /\ w_method = "" /\ w_data = NoData /\ w_request_id = NoneId
  /\ w_pc = "idle" /\ w_kwargs = EmptyMap /\ w_args = EmptyMap
  /\ w_result = NoOutcome /\ w_frames = <<>>
\* no server constructed yet; the scripts not started
OthersIdle ==
  /\ x_pc = "new" /\ x_expose = TRUE /\ x_members = EmptyMap
  /\ x_handlers = EmptyMap /\ x_exposed = {} /\ x_reply = EmptyMap
  /\ r_pc = "reading" /\ r_in = <<>> /\ r_sent = 0 /\ r_out_open = TRUE
  /\ r_capture = TRUE /\ r_stale = FALSE /\ r_buffer = <<>>
  /\ r_executed = <<>> /\ r_status = <<>>
  /\ b_pc = "start" /\ b_platform = "" /\ b_host = "alive"
  /\ b_watchdog = "off" /\ b_parent = "" /\ b_ended_by = ""
  /\ b_entry_records = 0 /\ b_status = <<>>
  /\ p_pc = "new" /\ p_read_nonblocking = FALSE
  /\ p_write_nonblocking = FALSE /\ p_get = "idle" /\ p_clock = 0
  /\ p_peer_wrote = FALSE /\ p_pipe = <<>> /\ p_buffer = <<>>
  /\ p_seen = <<>> /\ p_retry = <<>> /\ p_puts = <<>>
  /\ c_pc = [t \in {"dispatch", "other"} |-> "idle"]
  /\ c_buffer = <<>> /\ c_wire = <<>> /\ c_frames = <<>>
  /\ m_pc = [t \in {"dispatch", "other1", "other2"} |-> "idle"]
  /\ m_lock = NoneStr /\ m_next = 0
  /\ m_id = [t \in {"dispatch", "other1", "other2"} |-> NoneId]
  /\ m_load = [t \in {"dispatch", "other1", "other2"} |-> 0]
  /\ m_minted = <<>>
  /\ l_pc = "new" /\ l_reader = "" /\ l_todo = <<>> /\ l_pipe = <<>>
  /\ l_get = "idle" /\ l_buffer = <<>> /\ l_start = 0 /\ l_elapsed = 0
  /\ l_read = 0 /\ l_results = <<>>
  /\ d_pc = "start" /\ d_bundle = EmptyMap /\ d_catalog = EmptyMap
  /\ d_loaded = {} /\ d_sys = {} /\ d_runs = EmptyMap
  /\ q_in_closed = FALSE /\ q_linecount = 0
  /\ k_running = FALSE /\ k_loop_running = FALSE /\ k_loops = <<>>
  /\ k_in = <<>> /\ k_sent = 0 /\ k_eof = FALSE
  /\ h_running = TRUE /\ h_in = <<>> /\ h_sent = 0 /\ h_read = <<>>
  /\ h_dispatched = <<>> /\ h_out = <<>>

(***************************************************************************)
(* The handlers of the modelled server: the built-in ones and the methods  *)
(* of the subclass, each named by the code it runs.                        *)
(***************************************************************************)
\* _register_builtin_handlers
BuiltinHandlers ==
  [c \in {"exit", "shutdown", "__get_methods__"} |->
     CASE c = "exit" -> "_handle_exit"
       [] c = "shutdown" -> "_handle_shutdown"
       [] OTHER -> "_handle_get_methods"]

\* the public methods of the subclass, registered by _expose_methods:
\* add returns a number, divide (sent with y = 0) raises, greet awaits an
\* outbound call, notify returns nothing, lookup makes a synchronous request
ExposedMethods ==
  [c \in {"add", "divide", "greet", "notify", "lookup"} |-> c]

\* the handlers that return or raise without suspending
SimpleHandlers == {"add", "divide", "notify"}

\* what a simple handler does with the request
HandlerRun(code) ==
  CASE code = "add" -> Returned(PyScalar("sum"))
    [] code = "notify" -> Returned(PyNone)
    [] OTHER -> Raised(Exc("ValueError", "Division by zero"))

\* the handler given to set_default_handler returns a value
DefaultRun(command) == Returned(PyScalar("fallback"))

(***************************************************************************)
(* _process_command and send_response, as operators.                       *)
(***************************************************************************)
\* which code _process_command runs for a command
ResolveDefaultFirst(command, handlers, dflt) ==
  IF dflt # NoneStr THEN "default"
  ELSE IF command \in DOMAIN handlers THEN "specific"
  ELSE "unknown"

Resolve(command, handlers, dflt) ==
  IF command \in DOMAIN handlers THEN "specific"
  ELSE IF dflt # NoneStr THEN "default"
  ELSE "unknown"

\* response = {"error": f"Unknown command: {command}"}
UnknownCommandResponse(command) ==
  DictSet(EmptyDict, "error", <<"Unknown command: ", command>>)

\* error_response = {"error": str(e), "traceback": traceback.format_exc()}
ErrorResponseAsResult(e) ==
  DictSet(EmptyDict, "result", e.msg)

ErrorResponse(e) ==
  DictSet(DictSet(EmptyDict, "error", StrOfExc(e)), "traceback", FormatExc(e))

\* if response is not None and request_id is not None
ShouldReplyAlways(response, request_id) == response # PyNone

ShouldReply(response, request_id) ==
  response # PyNone /\ request_id # NoneId

\* send_response with a request id: the frame handed to queue.put
ResponseFrameKeepId(response, request_id) ==
  IF response.kind = "dict"
  THEN IF "request_id" \in response.d.has THEN response.d
       ELSE DictSet(response.d, "request_id", request_id)
  ELSE DictSet(DictSet(EmptyDict, "result", response.s), "request_id", request_id)

ResponseFrame(response, request_id) ==
  IF response.kind = "dict"
  THEN DictSet(response.d, "request_id", request_id)
  ELSE DictSet(DictSet(EmptyDict, "result", response.s), "request_id", request_id)

\* the frames _process_command writes once the handler has returned
ResultFrames(response, request_id) ==
  IF ShouldReply(response, request_id)
  THEN <<ResponseFrame(response, request_id)>>
  ELSE <<>>

\* the frames _process_command writes once the handler has raised
RaiseFramesSilent(e, request_id) == <<>>

RaiseFrames(e, request_id) ==
  IF request_id # NoneId
  THEN <<ResponseFrame(PyDict(ErrorResponse(e)), request_id)>>
  ELSE <<>>

OutcomeFrames(outcome, request_id) ==
  IF outcome.kind = "raise"
  THEN RaiseFrames(outcome.exc, request_id)
  ELSE ResultFrames(outcome.value, request_id)

(***************************************************************************)
(* The host: it writes requests and replies on the in pipe.                *)
(***************************************************************************)
HostCommands ==
  {"add", "divide", "greet", "notify", "lookup", "nope", "shutdown", "exit"}

HostIds == {NoneId, <<"r", "1">>}

\* {"command": c, "request_id": id}, or {"command": c} for id = None
HostRequest(c, id) ==
  IF id = NoneId
  THEN DictSet(EmptyDict, "command", c)
  ELSE DictSet(DictSet(EmptyDict, "command", c), "request_id", id)

\* {"result": "howdy", "request_id": id} and {"error": ..., "request_id": id}
HostReply(id, ok) ==
  IF ok
  THEN DictSet(DictSet(EmptyDict, "result", "howdy"), "request_id", id)
  ELSE DictSet(DictSet(EmptyDict, "error", <<"host error">>), "request_id", id)

\* the host may answer any id the child has minted, whenever it likes and
\* as often as it likes, and the id the child would mint next; it may also
\* put such an id on a message that has a command
HostMessages ==
  {HostRequest(c, id) : c \in HostCommands, id \in HostIds}
    \cup {HostReply(PyId(n), ok) : n \in 0..next_request_id, ok \in BOOLEAN}
    \cup {HostRequest("add", PyId(n)) : n \in 0..next_request_id}

\* The host writes its next message once the child has read the one before:
\* the child reads one message at a time, in the order written, so that it
\* cannot tell a message that waited in the pipe from one written later.
HostSend(m) ==
  /\ host_sent < MaxIn
  /\ in_pipe = <<>>
  /\ ~in_closed
  /\ in_pipe' = Append(in_pipe, m)
  /\ host_sent' = host_sent + 1
  /\ UNCHANGED <<tvars, wvars, ovars>>
  /\ UNCHANGED <<running, loop_alive, stop_scheduled, exited, command_handlers,
                 default_handler, response_futures, next_request_id,
                 in_closed, eof_reads,
                 out_pipe, out_by, tasks, calls, discarded>>

\* the host closes its end of the in pipe
HostClose ==
  /\ ~in_closed
  /\ in_closed' = TRUE
  /\ UNCHANGED <<tvars, wvars, ovars>>
  /\ UNCHANGED <<running, loop_alive, stop_scheduled, exited, command_handlers,
                 default_handler, response_futures, next_request_id, in_pipe,
                 eof_reads, host_sent, out_pipe, out_by, tasks, calls,
                 discarded>>

(***************************************************************************)
(* The dispatch loop.                                                      *)
(***************************************************************************)
\* The loop runs its callbacks on one thread: while a handler called by it is
\* blocked in request, in result(timeout + 0.5), it runs nothing else.
LoopRuns ==
  /\ loop_alive /\ ~exited
  /\ \A t \in 1..Len(tasks) : tasks[t].pc # "blocked"

\* The loop runs its ready callbacks first in, first out.  The first step of
\* a task made by create_task, and the wake-up of a task whose future was
\* completed, are queued before _server_loop awaits its next read, so they
\* run before the next message is dispatched.
NothingInFlight ==
  \A t \in 1..Len(tasks) : tasks[t].pc \in {"done", "exited"}

NothingQueued ==
  \A t \in 1..Len(tasks) :
    /\ tasks[t].pc # "ready"
    /\ tasks[t].pc = "awaiting" => ~calls[tasks[t].call].fut_done

\* the awaiters a message with request id rid completes
MatchAny(futures, rid) == DOMAIN futures

MatchFuture(futures, rid) ==
  IF rid \in DOMAIN futures THEN {rid} ELSE {}

\* is the message a reply to a call of the child?
IsOwnReply(request_id) == Truthy(request_id) /\ StartsWithPy(request_id)

NewTask(message) ==
  [command |-> GetStr(message, "command"),
   data |-> GetStr(message, "data"),
   request_id |-> GetId(message),
   pc |-> "ready", call |-> 0, via |-> "", outcome |-> NoOutcome]

\* future.set_result(message): a future that the timeout of wait_for has
\* cancelled raises InvalidStateError, which _server_loop catches and prints
SetResult(cs, k, message) ==
  IF cs[k].fut_cancelled THEN cs
  ELSE [cs EXCEPT ![k].fut_done = TRUE, ![k].fut_msg = message]

\* one turn of _server_loop with a message read: complete the awaiter of a
\* reply, drop a reply nobody awaits, or create the task of a request
ServerLoopReply ==
  /\ LoopRuns /\ running
  /\ NothingQueued
  /\ in_pipe # <<>>
  /\ LET message == Head(in_pipe)
         request_id == GetId(message)
     IN /\ message.has # {}
        /\ IsOwnReply(request_id)
        /\ MatchFuture(response_futures, request_id) # {}
        /\ \E key \in MatchFuture(response_futures, request_id) :
             /\ response_futures' =
                  [k \in DOMAIN response_futures \ {key} |-> response_futures[k]]
             /\ calls' = SetResult(calls, response_futures[key], message)
  /\ in_pipe' = Tail(in_pipe)
  /\ UNCHANGED <<tvars, wvars, ovars>>
  /\ UNCHANGED <<running, loop_alive, stop_scheduled, exited, command_handlers,
                 default_handler, next_request_id, in_closed, eof_reads,
                 host_sent,
                 out_pipe, out_by, tasks, discarded>>

ServerLoopDiscard ==
  /\ LoopRuns /\ running
  /\ NothingQueued
  /\ in_pipe # <<>>
  /\ LET message == Head(in_pipe)
         request_id == GetId(message)
     IN /\ message.has # {}
        /\ IsOwnReply(request_id)
        /\ MatchFuture(response_futures, request_id) = {}
        /\ discarded' = Append(discarded, message)
  /\ in_pipe' = Tail(in_pipe)
  /\ UNCHANGED <<tvars, wvars, ovars>>
  /\ UNCHANGED <<running, loop_alive, stop_scheduled, exited, command_handlers,
                 default_handler, response_futures, next_request_id,
                 in_closed, eof_reads,
                 host_sent, out_pipe, out_by, tasks, calls>>

\* get_message at the end of the closed in pipe: readline returns '',
\* queue.get raises EOFError and the reading thread clears running, whatever
\* the tasks of the loop are doing; _server_loop then leaves its while loop
ServerLoopEOFGoesOn ==
  /\ LoopRuns /\ running
  /\ in_pipe = <<>> /\ in_closed
  /\ eof_reads' = eof_reads + 1
  /\ UNCHANGED <<tvars, wvars, ovars>>
  /\ UNCHANGED <<running, loop_alive, stop_scheduled, exited,
                 command_handlers, default_handler, response_futures,
                 next_request_id, in_pipe, in_closed, host_sent, out_pipe,
                 out_by, tasks, calls, discarded>>

ServerLoopEOF ==
  /\ LoopRuns /\ running
  /\ in_pipe = <<>> /\ in_closed
  /\ eof_reads' = eof_reads + 1
  /\ running' = FALSE
  /\ UNCHANGED <<tvars, wvars, ovars>>
  /\ UNCHANGED <<loop_alive, stop_scheduled, exited, command_handlers,
                 default_handler, response_futures, next_request_id, in_pipe,
                 in_closed, host_sent, out_pipe, out_by, tasks, calls,
                 discarded>>

ServerLoopRequest ==
  /\ LoopRuns /\ running
  /\ NothingQueued
  /\ in_pipe # <<>>
  /\ LET message == Head(in_pipe)
     IN /\ message.has # {}
        /\ ~IsOwnReply(GetId(message))
        /\ tasks' = Append(tasks, NewTask(message))
  /\ in_pipe' = Tail(in_pipe)
  /\ UNCHANGED <<tvars, wvars, ovars>>
  /\ UNCHANGED <<running, loop_alive, stop_scheduled, exited, command_handlers,
                 default_handler, response_futures, next_request_id,
                 in_closed, eof_reads,
                 host_sent, out_pipe, out_by, calls, discarded>>

(***************************************************************************)
(* _process_command: one task per inbound request.                         *)
(***************************************************************************)
Ready(t) ==
  /\ LoopRuns
  /\ t \in 1..Len(tasks)
  /\ tasks[t].pc = "ready"

Via(t) == Resolve(tasks[t].command, command_handlers, default_handler)

Code(t) == command_handlers[tasks[t].command]

\* the task ends: its outcome is recorded and its frames are written
Finish(t, via, outcome, frames) ==
  /\ tasks' = [tasks EXCEPT ![t].pc = "done", ![t].via = via,
                            ![t].outcome = outcome]
  /\ out_pipe' = out_pipe \o frames
  /\ out_by' = out_by \o [i \in 1..Len(frames) |-> t]

\* a registered handler that returns or raises without suspending
RunHandler(t) ==
  /\ Ready(t)
  /\ Via(t) = "specific"
  /\ Code(t) \in SimpleHandlers
  /\ LET outcome == HandlerRun(Code(t))
     IN Finish(t, "specific", outcome,
               OutcomeFrames(outcome, tasks[t].request_id))
  /\ UNCHANGED <<tvars, wvars, ovars>>
  /\ UNCHANGED <<running, loop_alive, stop_scheduled, exited, command_handlers,
                 default_handler, response_futures, next_request_id, in_pipe,
                 in_closed, eof_reads, host_sent, calls, discarded>>

\* no handler of that name, a default handler is set
RunDefaultHandler(t) ==
  /\ Ready(t)
  /\ Via(t) = "default"
  /\ LET outcome == DefaultRun(tasks[t].command)
     IN Finish(t, "default", outcome,
               OutcomeFrames(outcome, tasks[t].request_id))
  /\ UNCHANGED <<tvars, wvars, ovars>>
  /\ UNCHANGED <<running, loop_alive, stop_scheduled, exited, command_handlers,
                 default_handler, response_futures, next_request_id, in_pipe,
                 in_closed, eof_reads, host_sent, calls, discarded>>

\* no handler of that name and no default handler
RunUnknown(t) ==
  /\ Ready(t)
  /\ Via(t) = "unknown"
  /\ LET outcome == Returned(PyDict(UnknownCommandResponse(tasks[t].command)))
     IN Finish(t, "unknown", outcome,
               OutcomeFrames(outcome, tasks[t].request_id))
  /\ UNCHANGED <<tvars, wvars, ovars>>
  /\ UNCHANGED <<running, loop_alive, stop_scheduled, exited, command_handlers,
                 default_handler, response_futures, next_request_id, in_pipe,
                 in_closed, eof_reads, host_sent, calls, discarded>>

\* _handle_shutdown: reply, clear running, schedule loop.stop, return None
RunShutdownReplyOnly(t) ==
  /\ Ready(t)
  /\ Via(t) = "specific"
  /\ Code(t) = "_handle_shutdown"
  /\ LET rid == tasks[t].request_id
         own == IF rid # NoneId
                THEN <<ResponseFrame(PyDict(DictSet(EmptyDict, "status",
                                                    "shutting_down")), rid)>>
                ELSE <<>>
     IN Finish(t, "specific", Returned(PyNone), own)
  /\ UNCHANGED <<tvars, wvars, ovars>>
  /\ UNCHANGED <<running, stop_scheduled, loop_alive, exited,
                 command_handlers, default_handler,
                 response_futures, next_request_id, in_pipe, in_closed,
                 eof_reads,
                 host_sent, calls, discarded>>

RunShutdown(t) ==
  /\ Ready(t)
  /\ Via(t) = "specific"
  /\ Code(t) = "_handle_shutdown"
  /\ LET rid == tasks[t].request_id
         own == IF rid # NoneId
                THEN <<ResponseFrame(PyDict(DictSet(EmptyDict, "status",
                                                    "shutting_down")), rid)>>
                ELSE <<>>
     IN Finish(t, "specific", Returned(PyNone),
               own \o ResultFrames(PyNone, rid))
  /\ running' = FALSE
  /\ stop_scheduled' = TRUE
  /\ UNCHANGED <<tvars, wvars, ovars>>
  /\ UNCHANGED <<loop_alive, exited, command_handlers, default_handler,
                 response_futures, next_request_id, in_pipe, in_closed,
                 eof_reads,
                 host_sent, calls, discarded>>

\* _handle_exit: reply when asked to, then os._exit(0); it never returns
RunExitReturns(t) ==
  /\ Ready(t)
  /\ Via(t) = "specific"
  /\ Code(t) = "_handle_exit"
  /\ LET rid == tasks[t].request_id
         own == IF rid # NoneId
                THEN <<ResponseFrame(PyDict(DictSet(EmptyDict, "status",
                                                    "exiting")), rid)>>
                ELSE <<>>
     IN Finish(t, "specific", Returned(PyNone), own)
  /\ UNCHANGED <<tvars, wvars, ovars>>
  /\ UNCHANGED <<running, loop_alive, stop_scheduled, exited,
                 command_handlers, default_handler, response_futures,
                 next_request_id, in_pipe, in_closed, eof_reads, host_sent,
                 calls,
                 discarded>>

RunExit(t) ==
  /\ Ready(t)
  /\ Via(t) = "specific"
  /\ Code(t) = "_handle_exit"
  /\ LET rid == tasks[t].request_id
         own == IF rid # NoneId
                THEN <<ResponseFrame(PyDict(DictSet(EmptyDict, "status",
                                                    "exiting")), rid)>>
                ELSE <<>>
     IN /\ tasks' = [tasks EXCEPT ![t].pc = "exited", ![t].via = "specific"]
        /\ out_pipe' = out_pipe \o own
        /\ out_by' = out_by \o [i \in 1..Len(own) |-> t]
  /\ exited' = TRUE
  /\ UNCHANGED <<tvars, wvars, ovars>>
  /\ UNCHANGED <<running, loop_alive, stop_scheduled, command_handlers,
                 default_handler, response_futures, next_request_id, in_pipe,
                 in_closed, eof_reads, host_sent, calls, discarded>>

\* the stop scheduled by shutdown takes effect: run_forever returns
LoopStop ==
  /\ LoopRuns
  /\ stop_scheduled
  /\ loop_alive' = FALSE
  /\ stop_scheduled' = FALSE
  /\ UNCHANGED <<tvars, wvars, ovars>>
  /\ UNCHANGED <<running, exited, command_handlers, default_handler,
                 response_futures, next_request_id, in_pipe, in_closed,
                 eof_reads,
                 host_sent, out_pipe, out_by, tasks, calls, discarded>>

(***************************************************************************)
(* Outbound calls: request and async_request.                              *)
(*                                                                         *)
(* A call mints an id, makes its future with asyncio.Future(), records it  *)
(* in _response_futures and writes the request.  asyncio.Future() binds    *)
(* the future to the event loop of the calling thread: self.loop on the    *)
(* dispatch thread, another loop on any other thread.                      *)
(***************************************************************************)
NewCall(api, thread, id, t) ==
  [api |-> api, thread |-> thread, id |-> id, task |-> t, state |-> "waiting",
   fut_done |-> FALSE, fut_msg |-> EmptyDict, fut_cancelled |-> FALSE,
   exc |-> NoExc]

\* message = {"command": command, "data": data, "request_id": request_id}
RequestMessage(command, data, id) ==
  DictSet(DictSet(DictSet(EmptyDict, "command", command), "data", data),
          "request_id", id)

\* del self._response_futures[request_id], when present
ForgetNothing(futures, id) == futures

Forget(futures, id) == [k \in DOMAIN futures \ {id} |-> futures[k]]

\* raise TimeoutError(f"Timeout waiting for response to command '{command}'")
TimeoutError(command) ==
  Exc("TimeoutError", "Timeout waiting for response to command " \o command)

\* greet: howdy = await self.async_request("Greet", ["Bob"]), up to the await
RunGreet(t) ==
  /\ Ready(t)
  /\ Via(t) = "specific"
  /\ Code(t) = "greet"
  /\ next_request_id < MaxCalls
  /\ LET id == PyId(next_request_id)
     IN /\ next_request_id' = next_request_id + 1
        /\ calls' = Append(calls, NewCall("async_request", "loop", id, t))
        /\ response_futures' = (id :> (Len(calls) + 1)) @@ response_futures
        /\ out_pipe' = Append(out_pipe, RequestMessage("Greet", "Bob", id))
        /\ out_by' = Append(out_by, t)
        /\ tasks' = [tasks EXCEPT ![t].pc = "awaiting", ![t].via = "specific",
                                  ![t].call = Len(calls) + 1]
  /\ UNCHANGED <<tvars, wvars, ovars>>
  /\ UNCHANGED <<running, loop_alive, stop_scheduled, exited, command_handlers,
                 default_handler, in_pipe, in_closed, eof_reads, host_sent,
                 discarded>>

\* the value async_request returns for a reply: response['result']
AsyncValue(message) ==
  IF "result" \in message.has
  THEN Returned(IF message.result = NoneStr THEN PyNone
                ELSE PyScalar(message.result))
  ELSE Raised(Exc("KeyError", "'result'"))

\* the future of the awaited call is done: async_request returns
\* response['result'], greet returns it, and the reply is sent
ResumeGreet(t) ==
  /\ LoopRuns
  /\ t \in 1..Len(tasks)
  /\ tasks[t].pc = "awaiting"
  /\ LET k == tasks[t].call
         outcome == AsyncValue(calls[k].fut_msg)
     IN /\ calls[k].fut_done
        /\ calls' = [calls EXCEPT
                       ![k].state = IF outcome.kind = "raise" THEN "failed"
                                    ELSE "returned",
                       ![k].exc = outcome.exc]
        /\ response_futures' =
             IF outcome.kind = "raise"
             THEN Forget(response_futures, calls[k].id)
             ELSE response_futures
        /\ Finish(t, "specific", outcome,
                  OutcomeFrames(outcome, tasks[t].request_id))
  /\ UNCHANGED <<tvars, wvars, ovars>>
  /\ UNCHANGED <<running, loop_alive, stop_scheduled, exited, command_handlers,
                 default_handler, next_request_id, in_pipe, in_closed,
                 eof_reads,
                 host_sent, discarded>>

\* the timeout of the awaited call elapses first: wait_for cancels the
\* future and waits for the cancellation to be delivered, which takes further
\* turns of the loop; the awaiter stays in _response_futures meanwhile
TimeoutGreet(t) ==
  /\ LoopRuns
  /\ t \in 1..Len(tasks)
  /\ tasks[t].pc = "awaiting"
  /\ LET k == tasks[t].call
     IN /\ ~calls[k].fut_done /\ ~calls[k].fut_cancelled
        /\ calls' = [calls EXCEPT ![k].fut_cancelled = TRUE]
  /\ UNCHANGED <<tvars, wvars, ovars>>
  /\ UNCHANGED <<running, loop_alive, stop_scheduled, exited, command_handlers,
                 default_handler, response_futures, next_request_id, in_pipe,
                 in_closed, eof_reads, host_sent, out_pipe, out_by, tasks,
                 discarded>>

\* the cancellation has been delivered: wait_for raises, _wait_for_response
\* and async_request remove the awaiter if it is still there and raise
\* TimeoutError, which greet lets through
TimeoutRaise(t) ==
  /\ LoopRuns
  /\ t \in 1..Len(tasks)
  /\ tasks[t].pc = "awaiting"
  /\ LET k == tasks[t].call
     IN /\ calls[k].fut_cancelled
        /\ LET e == TimeoutError("Greet")
           IN /\ calls' = [calls EXCEPT ![k].state = "timeout", ![k].exc = e]
              /\ Finish(t, "specific", Raised(e),
                        OutcomeFrames(Raised(e), tasks[t].request_id))
        /\ response_futures' = Forget(response_futures, calls[k].id)
  /\ UNCHANGED <<tvars, wvars, ovars>>
  /\ UNCHANGED <<running, loop_alive, stop_scheduled, exited, command_handlers,
                 default_handler, next_request_id, in_pipe, in_closed,
                 eof_reads,
                 host_sent, discarded>>

\* lookup: return self.request("Lookup"), called by a synchronous handler on
\* the dispatch thread, up to run_coroutine_threadsafe(...).result: the id is
\* minted, the awaiter recorded, the request written, and the dispatch
\* thread blocks in result(timeout + 0.5)
RunLookup(t) ==
  /\ Ready(t)
  /\ Via(t) = "specific"
  /\ Code(t) = "lookup"
  /\ next_request_id < MaxCalls
  /\ LET id == PyId(next_request_id)
     IN /\ next_request_id' = next_request_id + 1
        /\ calls' = Append(calls, NewCall("request", "loop", id, t))
        /\ response_futures' = (id :> (Len(calls) + 1)) @@ response_futures
        /\ out_pipe' = Append(out_pipe, RequestMessage("Lookup", NoneStr, id))
        /\ out_by' = Append(out_by, t)
        /\ tasks' = [tasks EXCEPT ![t].pc = "blocked", ![t].via = "specific",
                                  ![t].call = Len(calls) + 1]
  /\ UNCHANGED <<tvars, wvars, ovars>>
  /\ UNCHANGED <<running, loop_alive, stop_scheduled, exited, command_handlers,
                 default_handler, in_pipe, in_closed, eof_reads, host_sent,
                 discarded>>

\* result(timeout + 0.5) gives up.  The blocked thread is the one that would
\* run _wait_for_response and the dispatch of the reply, so neither has run,
\* whatever the host wrote meanwhile: request removes the awaiter and raises
\* TimeoutError, and the handler's task ends with it.
LookupGiveUp(t) ==
  /\ loop_alive /\ ~exited
  /\ t \in 1..Len(tasks)
  /\ tasks[t].pc = "blocked"
  /\ LET k == tasks[t].call
         e == TimeoutError("Lookup")
     IN /\ calls' = [calls EXCEPT ![k].state = "timeout", ![k].exc = e]
        /\ response_futures' = Forget(response_futures, calls[k].id)
        /\ Finish(t, "specific", Raised(e),
                  OutcomeFrames(Raised(e), tasks[t].request_id))
  /\ UNCHANGED <<tvars, wvars, ovars>>
  /\ UNCHANGED <<running, loop_alive, stop_scheduled, exited, command_handlers,
                 default_handler, next_request_id, in_pipe, in_closed,
                 eof_reads, host_sent, discarded>>

\* request called on a thread other than the dispatch thread, up to
\* run_coroutine_threadsafe.  When queue.put raises (the host has closed the
\* out pipe) the awaiter is removed again and RuntimeError is raised.
RequestStart ==
  /\ ~exited
  /\ next_request_id < MaxCalls
  /\ \E sent \in BOOLEAN :
       LET id == PyId(next_request_id)
           call == NewCall("request", "other", id, 0)
           recorded == (id :> (Len(calls) + 1)) @@ response_futures
       IN /\ next_request_id' = next_request_id + 1
          /\ IF sent
             THEN /\ calls' = Append(calls, call)
                  /\ response_futures' = recorded
                  /\ out_pipe' = Append(out_pipe,
                                        RequestMessage("Lookup", NoneStr, id))
                  /\ out_by' = Append(out_by, 0)
             ELSE /\ calls' = Append(calls,
                       [call EXCEPT !.state = "failed",
                                    !.exc = Exc("RuntimeError",
                                                "Error sending request")])
                  /\ response_futures' = Forget(recorded, id)
                  /\ UNCHANGED <<out_pipe, out_by>>
  /\ UNCHANGED <<tvars, wvars, ovars>>
  /\ UNCHANGED <<running, loop_alive, stop_scheduled, exited, command_handlers,
                 default_handler, in_pipe, in_closed, eof_reads, host_sent,
                 tasks,
                 discarded>>

\* what awaiting a future of another loop raises in _wait_for_response:
\* ValueError from wait_for's ensure_future, or RuntimeError from the task
ForeignLoopErrors ==
  {Exc("ValueError", "The future belongs to a different loop than the one specified as the loop argument"),
   Exc("RuntimeError", "Task got Future attached to a different loop")}

\* _wait_for_response(future, ...) runs on self.loop for a request made on
\* another thread: the future belongs to that thread's loop, and awaiting it
\* raises; request removes the awaiter and lets the error through.  A future
\* that is already done is returned by the runtimes that await it directly.
RequestRun(k) ==
  /\ LoopRuns
  /\ k \in 1..Len(calls)
  /\ calls[k].api = "request" /\ calls[k].thread = "other"
  /\ calls[k].state = "waiting"
  /\ \/ \E e \in ForeignLoopErrors :
          /\ calls' = [calls EXCEPT ![k].state = "failed", ![k].exc = e]
          /\ response_futures' = Forget(response_futures, calls[k].id)
     \/ /\ calls[k].fut_done
        /\ calls' = [calls EXCEPT ![k].state = "returned"]
        /\ UNCHANGED response_futures
  /\ UNCHANGED <<tvars, wvars, ovars>>
  /\ UNCHANGED <<running, loop_alive, stop_scheduled, exited, command_handlers,
                 default_handler, next_request_id, in_pipe, in_closed,
                 eof_reads,
                 host_sent, out_pipe, out_by, tasks, discarded>>

\* result(timeout + 0.5) gives up before the loop has run the coroutine
RequestGiveUp(k) ==
  /\ ~exited
  /\ k \in 1..Len(calls)
  /\ calls[k].api = "request" /\ calls[k].thread = "other"
  /\ calls[k].state = "waiting"
  /\ calls' = [calls EXCEPT ![k].state = "timeout",
                            ![k].exc = TimeoutError("Lookup")]
  /\ response_futures' = Forget(response_futures, calls[k].id)
  /\ UNCHANGED <<tvars, wvars, ovars>>
  /\ UNCHANGED <<running, loop_alive, stop_scheduled, exited, command_handlers,
                 default_handler, next_request_id, in_pipe, in_closed,
                 eof_reads,
                 host_sent, out_pipe, out_by, tasks, discarded>>

(***************************************************************************)
(* The server after construction with auto_start: the built-in handlers    *)
(* and the exposed methods registered, the dispatch loop running, and the  *)
(* program having called set_default_handler or not.                       *)
(***************************************************************************)
Init ==
  /\ running = TRUE
  /\ loop_alive = TRUE
  /\ stop_scheduled = FALSE
  /\ exited = FALSE
  /\ command_handlers = BuiltinHandlers @@ ExposedMethods
  /\ default_handler \in {NoneStr, "fallback"}
  /\ response_futures = <<>>
  /\ next_request_id = 0
  /\ in_pipe = <<>>
  /\ in_closed = FALSE
  /\ eof_reads = 0
  /\ host_sent = 0
  /\ out_pipe = <<>>
  /\ out_by = <<>>
  /\ tasks = <<>>
  /\ calls = <<>>
  /\ discarded = <<>>
  /\ TransportIdle
  /\ WrapperIdle
  /\ OthersIdle

Next ==
  \/ \E m \in HostMessages : HostSend(m)
  \/ HostClose
  \/ ServerLoopEOF
  \/ ServerLoopReply
  \/ ServerLoopDiscard
  \/ ServerLoopRequest
  \/ \E t \in 1..Len(tasks) : RunHandler(t)
  \/ \E t \in 1..Len(tasks) : RunDefaultHandler(t)
  \/ \E t \in 1..Len(tasks) : RunUnknown(t)
  \/ \E t \in 1..Len(tasks) : RunShutdown(t)
  \/ \E t \in 1..Len(tasks) : RunExit(t)
  \/ \E t \in 1..Len(tasks) : RunGreet(t)
  \/ \E t \in 1..Len(tasks) : ResumeGreet(t)
  \/ \E t \in 1..Len(tasks) : TimeoutGreet(t)
  \/ \E t \in 1..Len(tasks) : TimeoutRaise(t)
  \/ \E t \in 1..Len(tasks) : RunLookup(t)
  \/ \E t \in 1..Len(tasks) : LookupGiveUp(t)
  \/ RequestStart
  \/ \E k \in 1..Len(calls) : RequestRun(k)
  \/ \E k \in 1..Len(calls) : RequestGiveUp(k)
  \/ LoopStop

Spec == Init /\ [][Next]_vars

(***************************************************************************)
(* Properties of the server.                                               *)
(***************************************************************************)
\* the frames task t wrote, oldest first
TaskFrames(t) ==
  LET idx == {i \in 1..Len(out_pipe) : out_by[i] = t}
      F[i \in 0..Len(out_pipe)] ==
        IF i = 0 THEN <<>>
        ELSE IF i \in idx THEN Append(F[i - 1], out_pipe[i]) ELSE F[i - 1]
  IN F[Len(out_pipe)]

\* the replies among them: the frames that are not outbound requests
IsReplyFrame(f) == "command" \notin f.has
Replies(t) == SelectSeq(TaskFrames(t), IsReplyFrame)

HasPyPrefix(id) ==
  /\ id # NoneId
  /\ Len(id) >= 3
  /\ id[1] = "p" /\ id[2] = "y" /\ id[3] = "-"

\* C1: a call whose future has been completed was completed with a message
\* that carries exactly the id minted for that call, whatever the number of
\* calls outstanding and the order of the replies.
C1_ReplyCarriesMintedId ==
  \A k \in 1..Len(calls) :
    calls[k].fut_done =>
      /\ "request_id" \in calls[k].fut_msg.has
      /\ calls[k].fut_msg.request_id = calls[k].id
      /\ calls[k].id = <<"p", "y", "-", ToString(k - 1)>>

C1_Witness ==
  /\ Len(calls) = 2
  /\ calls[1].fut_done /\ calls[2].fut_done
  /\ calls[1].state = "returned"

C3_NoReplyMeansTimeout ==
  \A k \in 1..Len(calls) :
    (~calls[k].fut_done /\ calls[k].state # "waiting") =>
      /\ calls[k].state # "returned"
      /\ calls[k].exc.cls = "TimeoutError"

\* C4: a call that has timed out is never touched again (its future is not
\* completed, it returns nothing), no message with the child's prefix ever
\* becomes a task, and a call completed later is completed by a message that
\* carries its own id.
C4_InvPart ==
  /\ \A t \in 1..Len(tasks) : ~HasPyPrefix(tasks[t].request_id)
  /\ \A k \in 1..Len(calls) :
       (calls[k].state = "returned" /\ calls[k].fut_done) =>
         GetId(calls[k].fut_msg) = calls[k].id

C4_ActPart ==
  \A k \in 1..Len(calls) :
    calls[k].state = "timeout" =>
      /\ calls'[k] = calls[k]
      /\ calls[k].id \notin DOMAIN response_futures'

C4_LateReplyDropped == [](C4_InvPart) /\ [][C4_ActPart]_vars

C4_Witness ==
  \E k, j \in 1..Len(calls) :
    /\ k < j
    /\ calls[k].state = "timeout" /\ ~calls[k].fut_done
    /\ \E i \in 1..Len(discarded) : GetId(discarded[i]) = calls[k].id
    /\ calls[j].state = "returned"

\* C5: a task of a request without an id writes no reply, whether its
\* handler returns a value, raises, or no handler exists for the command.
C5_NoIdNoReply ==
  \A t \in 1..Len(tasks) :
    tasks[t].request_id = NoneId => Replies(t) = <<>>

C5_Witness ==
  \E t, u \in 1..Len(tasks) :
    /\ tasks[t].request_id = NoneId /\ tasks[t].pc = "done"
    /\ tasks[t].outcome.kind = "raise"
    /\ tasks[u].request_id = NoneId /\ tasks[u].pc = "done"
    /\ tasks[u].outcome.kind = "return" /\ tasks[u].outcome.value # PyNone

\* C6: a command with a registered handler runs that handler; one without
\* runs the default handler when one is set; otherwise no handler runs and a
\* request with an id gets the single reply {error: "Unknown command: <c>",
\* request_id: <id>} and one without an id gets none.
C6_HandlerResolution ==
  \A t \in 1..Len(tasks) :
    tasks[t].pc # "ready" =>
      IF tasks[t].command \in DOMAIN command_handlers
      THEN tasks[t].via = "specific"
      ELSE IF default_handler # NoneStr
      THEN tasks[t].via = "default"
      ELSE /\ tasks[t].via = "unknown"
           /\ TaskFrames(t) =
                IF tasks[t].request_id = NoneId THEN <<>>
                ELSE << [EmptyDict EXCEPT
                           !.has = {"error", "request_id"},
                           !.error = <<"Unknown command: ", tasks[t].command>>,
                           !.request_id = tasks[t].request_id] >>

C6_Witness ==
  \E t, u \in 1..Len(tasks) :
    /\ tasks[t].via = "unknown" /\ tasks[t].request_id # NoneId
    /\ Len(TaskFrames(t)) = 1
    /\ tasks[u].via = "specific" /\ tasks[u].pc = "done"

\* C7: the reply to a request with an id whose handler raised is one error
\* reply: the message, the formatted traceback ending with the class name
\* and the message, the request's id, no result; and the step in which a
\* handler raises leaves the dispatch loop running.
C7_InvPart ==
  \A t \in 1..Len(tasks) :
    (tasks[t].pc = "done" /\ tasks[t].outcome.kind = "raise"
       /\ tasks[t].request_id # NoneId) =>
      /\ Len(Replies(t)) = 1
      /\ LET f == Replies(t)[1]
             e == tasks[t].outcome.exc
         IN /\ f.has = {"error", "traceback", "request_id"}
            /\ f.request_id = tasks[t].request_id
            /\ f.error = <<e.msg>>
            /\ Len(f.traceback) >= 2
            /\ f.traceback[Len(f.traceback) - 1] = e.cls
            /\ f.traceback[Len(f.traceback)] = e.msg

C7_ActPart ==
  (\E t \in 1..Len(tasks) :
     /\ tasks[t].outcome.kind # "raise"
     /\ tasks'[t].outcome.kind = "raise")
  => /\ running' = running
     /\ loop_alive' = loop_alive
     /\ stop_scheduled' = stop_scheduled
     /\ exited' = exited

JNull == [t |-> "null"]
JBool(b) == [t |-> "bool", b |-> b]
JInt(n) == [t |-> "int", n |-> n]
JStr(s) == [t |-> "str", s |-> s]
JList(l) == [t |-> "list", l |-> l]
JDict(m) == [t |-> "dict", m |-> m]
PyTuple(l) == [t |-> "tuple", l |-> l]
\* a value json.dumps raises TypeError for
PyObject == [t |-> "object"]

NL == "\n"
QUOTE == "\""
BACKSLASH == "\\"
Whitespace == {" ", NL, "\t", "\r"}
DigitChars == {"0", "1", "2", "3", "4", "5", "6", "7", "8", "9"}

RECURSIVE Digits(_)
Digits(n) ==
  IF n < 10 THEN <<ToString(n)>>
  ELSE Digits(n \div 10) \o <<ToString(n % 10)>>

DumpInt(n) == IF n < 0 THEN <<"-">> \o Digits(-n) ELSE Digits(n)

\* the encoder's escapes: a quote, a backslash or a newline inside a string
\* never reaches the text as it is
EscapeCharRaw(c) ==
  IF c = QUOTE THEN <<BACKSLASH, QUOTE>>
  ELSE IF c = BACKSLASH THEN <<BACKSLASH, BACKSLASH>>
  ELSE IF c = "\t" THEN <<BACKSLASH, "t">>
  ELSE <<c>>

EscapeChar(c) ==
  IF c = QUOTE THEN <<BACKSLASH, QUOTE>>
  ELSE IF c = BACKSLASH THEN <<BACKSLASH, BACKSLASH>>
  ELSE IF c = NL THEN <<BACKSLASH, "n">>
  ELSE IF c = "\t" THEN <<BACKSLASH, "t">>
  ELSE <<c>>

RECURSIVE EscapeAll(_)
EscapeAll(s) ==
  IF s = <<>> THEN <<>> ELSE EscapeChar(Head(s)) \o EscapeAll(Tail(s))

DumpStr(s) == <<QUOTE>> \o EscapeAll(s) \o <<QUOTE>>

RECURSIVE Serializable(_)
Serializable(v) ==
  CASE v.t \in {"list", "tuple"} ->
         \A i \in 1..Len(v.l) : Serializable(v.l[i])
    [] v.t = "dict" -> \A i \in 1..Len(v.m) : Serializable(v.m[i][2])
    [] v.t = "object" -> FALSE
    [] OTHER -> TRUE

\* json.dumps(obj), for a serializable value, with its default separators
RECURSIVE Dumps(_), DumpItems(_), DumpMembers(_)
Dumps(v) ==
  CASE v.t = "null" -> <<"n", "u", "l", "l">>
    [] v.t = "bool" -> IF v.b THEN <<"t", "r", "u", "e">>
                       ELSE <<"f", "a", "l", "s", "e">>
    [] v.t = "int" -> DumpInt(v.n)
    [] v.t = "str" -> DumpStr(v.s)
    [] v.t \in {"list", "tuple"} -> <<"[">> \o DumpItems(v.l) \o <<"]">>
    [] OTHER -> <<"{">> \o DumpMembers(v.m) \o <<"}">>

DumpItems(l) ==
  IF l = <<>> THEN <<>>
  ELSE IF Len(l) = 1 THEN Dumps(l[1])
  ELSE Dumps(l[1]) \o <<",", " ">> \o DumpItems(Tail(l))

DumpMembers(m) ==
  IF m = <<>> THEN <<>>
  ELSE LET one == DumpStr(m[1][1]) \o <<":", " ">> \o Dumps(m[1][2])
       IN IF Len(m) = 1 THEN one
          ELSE one \o <<",", " ">> \o DumpMembers(Tail(m))

\* str.strip()
RECURSIVE StripLeft(_), StripRight(_)
StripLeft(s) ==
  IF s # <<>> /\ Head(s) \in Whitespace THEN StripLeft(Tail(s)) ELSE s
StripRight(s) ==
  IF s # <<>> /\ s[Len(s)] \in Whitespace
  THEN StripRight(SubSeq(s, 1, Len(s) - 1)) ELSE s
Strip(s) == StripRight(StripLeft(s))

\* the parser of json.loads: a result is [ok, v, pos], pos being the index
\* after the value
ParseFail == [ok |-> FALSE, v |-> JNull, pos |-> 0]
ParseOk(v, pos) == [ok |-> TRUE, v |-> v, pos |-> pos]

RECURSIVE SkipWs(_, _)
SkipWs(s, i) ==
  IF i <= Len(s) /\ s[i] \in Whitespace THEN SkipWs(s, i + 1) ELSE i

ParseLiteral(s, i, word, v) ==
  IF i + Len(word) - 1 <= Len(s) /\ SubSeq(s, i, i + Len(word) - 1) = word
  THEN ParseOk(v, i + Len(word))
  ELSE ParseFail

DigitValue(c) == CHOOSE d \in 0..9 : ToString(d) = c

RECURSIVE ParseDigits(_, _, _)
ParseDigits(s, i, acc) ==
  IF i <= Len(s) /\ s[i] \in DigitChars
  THEN ParseDigits(s, i + 1, acc * 10 + DigitValue(s[i]))
  ELSE [n |-> acc, pos |-> i]

\* -?(0|[1-9][0-9]*)
ParseNumber(s, i) ==
  LET neg == s[i] = "-"
      j == IF neg THEN i + 1 ELSE i
  IN IF j > Len(s) \/ s[j] \notin DigitChars THEN ParseFail
     ELSE IF s[j] = "0" THEN ParseOk(JInt(0), j + 1)
     ELSE LET r == ParseDigits(s, j, 0)
          IN ParseOk(JInt(IF neg THEN -r.n ELSE r.n), r.pos)

\* the characters of a string, from the one after its opening quote: an
\* escape is decoded, a raw control character is refused
RECURSIVE ParseChars(_, _, _)
ParseChars(s, i, acc) ==
  IF i > Len(s) THEN ParseFail
  ELSE IF s[i] = QUOTE THEN ParseOk(acc, i + 1)
  ELSE IF s[i] \in {NL, "\t", "\r"} THEN ParseFail
  ELSE IF s[i] = BACKSLASH
  THEN IF i + 1 > Len(s) THEN ParseFail
       ELSE IF s[i + 1] = QUOTE THEN ParseChars(s, i + 2, Append(acc, QUOTE))
       ELSE IF s[i + 1] = BACKSLASH
       THEN ParseChars(s, i + 2, Append(acc, BACKSLASH))
       ELSE IF s[i + 1] = "n" THEN ParseChars(s, i + 2, Append(acc, NL))
       ELSE IF s[i + 1] = "t" THEN ParseChars(s, i + 2, Append(acc, "\t"))
       ELSE ParseFail
  ELSE ParseChars(s, i + 1, Append(acc, s[i]))

RECURSIVE ParseValue(_, _), ParseItems(_, _, _), ParseMembers(_, _, _)
ParseValue(s, i) ==
  IF i > Len(s) THEN ParseFail
  ELSE CASE s[i] = "n" -> ParseLiteral(s, i, <<"n", "u", "l", "l">>, JNull)
         [] s[i] = "t" -> ParseLiteral(s, i, <<"t", "r", "u", "e">>, JBool(TRUE))
         [] s[i] = "f" ->
              ParseLiteral(s, i, <<"f", "a", "l", "s", "e">>, JBool(FALSE))
         [] s[i] = QUOTE ->
              LET r == ParseChars(s, i + 1, <<>>)
              IN IF r.ok THEN ParseOk(JStr(r.v), r.pos) ELSE ParseFail
         [] s[i] = "[" ->
              LET j == SkipWs(s, i + 1)
              IN IF j <= Len(s) /\ s[j] = "]" THEN ParseOk(JList(<<>>), j + 1)
                 ELSE ParseItems(s, j, <<>>)
         [] s[i] = "{" ->
              LET j == SkipWs(s, i + 1)
              IN IF j <= Len(s) /\ s[j] = "}" THEN ParseOk(JDict(<<>>), j + 1)
                 ELSE ParseMembers(s, j, <<>>)
         [] s[i] = "-" \/ s[i] \in DigitChars -> ParseNumber(s, i)
         [] OTHER -> ParseFail

\* value (, value)* ]
ParseItems(s, i, acc) ==
  LET r == ParseValue(s, i)
      j == SkipWs(s, r.pos)
  IN IF ~r.ok \/ j > Len(s) THEN ParseFail
     ELSE IF s[j] = "]" THEN ParseOk(JList(Append(acc, r.v)), j + 1)
     ELSE IF s[j] = ","
     THEN ParseItems(s, SkipWs(s, j + 1), Append(acc, r.v))
     ELSE ParseFail

\* string : value (, string : value)* }
ParseMembers(s, i, acc) ==
  IF i > Len(s) \/ s[i] # QUOTE THEN ParseFail
  ELSE LET k == ParseChars(s, i + 1, <<>>)
           c == SkipWs(s, k.pos)
       IN IF ~k.ok \/ c > Len(s) \/ s[c] # ":" THEN ParseFail
          ELSE LET r == ParseValue(s, SkipWs(s, c + 1))
                   j == SkipWs(s, r.pos)
               IN IF ~r.ok \/ j > Len(s) THEN ParseFail
                  ELSE IF s[j] = "}"
                  THEN ParseOk(JDict(Append(acc, <<k.v, r.v>>)), j + 1)
                  ELSE IF s[j] = ","
                  THEN ParseMembers(s, SkipWs(s, j + 1),
                                    Append(acc, <<k.v, r.v>>))
                  ELSE ParseFail

\* what a get hands to its caller: a value, or the exception it raises
Got(v) == [ok |-> TRUE, err |-> "", v |-> v]
GotError(err) == [ok |-> FALSE, err |-> err, v |-> JNull]

\* json.loads(text): the value, or JSONDecodeError
Loads(text) ==
  LET r == ParseValue(text, SkipWs(text, 1))
  IN IF r.ok /\ SkipWs(text, r.pos) = Len(text) + 1
     THEN Got(r.v)
     ELSE GotError("JSONDecodeError")

(***************************************************************************)
(* JSONQueue over one direction of a loopback pair of pipes: put on one    *)
(* end, get on the peer end.  The pipes are opened blocking and in text    *)
(* mode, so a write puts the whole text on the wire and a readline waits   *)
(* for a whole line unless the writing end is closed.                      *)
(***************************************************************************)
\* the values put in the checked runs
Message ==
  JDict(<< <<(<<"c", "m", "d">>), JStr(<<"a", "d", "d">>)>>,
           <<(<<"d", "a", "t", "a">>), JDict(<< <<(<<"x">>), JInt(1)>> >>)>>,
           <<(<<"i", "d">>), JStr(<<"r", "-", "1">>)>> >>)

JsonValues ==
  { JNull, JBool(TRUE), JBool(FALSE), JInt(0), JInt(-12), JInt(305),
    JStr(<<>>), JStr(<<" ">>), JStr(<<"a", " ", "b">>),
    JStr(<<"x", NL, "y">>), JStr(<<QUOTE, BACKSLASH, "\t">>),
    JStr(<<"n", "u", "l", "l">>), JStr(<<"[", "1", ",", "]">>),
    JList(<<>>), JList(<<JInt(1), JStr(<<",">>), JNull>>),
    JList(<<JList(<<>>), JBool(TRUE)>>),
    JDict(<<>>), JDict(<< <<(<<>>), JList(<<JInt(7)>>)>> >>), Message }

PythonOnlyValues ==
  { PyTuple(<<JInt(1), JInt(2)>>), JList(<<PyTuple(<<>>)>>),
    PyObject, JDict(<< <<(<<"k">>), PyObject>> >>) }

PutValues == JsonValues \cup PythonOnlyValues

\* json.dumps(obj) + '\n'
Serialized(obj) == Dumps(obj) \o <<NL>>

\* the index of the first newline of a text, 0 when it has none
RECURSIVE FirstNewline(_, _)
FirstNewline(w, i) ==
  IF i > Len(w) THEN 0 ELSE IF w[i] = NL THEN i ELSE FirstNewline(w, i + 1)

HasLine(w) == FirstNewline(w, 1) > 0

\* readline() on a text that holds a line: the line with its newline
ReadAll(w) == w

ReadLine(w) == SubSeq(w, 1, FirstNewline(w, 1))

\* put(obj) of a value json.dumps accepts, either way of writing
Put(obj) ==
  /\ ~wire_closed
  /\ Len(put_log) + put_errors < MaxPuts
  /\ Serializable(obj)
  /\ wire' = wire \o Serialized(obj)
  /\ put_log' = Append(put_log, obj)
  /\ UNCHANGED <<wire_closed, put_errors, got_log>>
  /\ UNCHANGED <<svars, wvars, ovars>>

\* put(obj) of a value json.dumps refuses: ValueError, nothing written
PutRefused(obj) ==
  /\ ~wire_closed
  /\ Len(put_log) + put_errors < MaxPuts
  /\ ~Serializable(obj)
  /\ put_errors' = put_errors + 1
  /\ UNCHANGED <<wire, wire_closed, put_log, got_log>>
  /\ UNCHANGED <<svars, wvars, ovars>>

\* get() with a line on the wire: readline, then json.loads of the
\* stripped line, for get(block=True) and get(block=False) alike
Get ==
  /\ HasLine(wire)
  /\ LET chunk == ReadLine(wire)
     IN /\ wire' = SubSeq(wire, Len(chunk) + 1, Len(wire))
        /\ got_log' = Append(got_log, Loads(Strip(chunk)))
  /\ UNCHANGED <<wire_closed, put_log, put_errors>>
  /\ UNCHANGED <<svars, wvars, ovars>>

\* close() on the writing end
Close ==
  /\ ~wire_closed
  /\ wire_closed' = TRUE
  /\ UNCHANGED <<wire, put_log, put_errors, got_log>>
  /\ UNCHANGED <<svars, wvars, ovars>>

\* get() at the end of a closed pipe: readline returns '', EOFError
GetEOF ==
  /\ wire_closed
  /\ ~HasLine(wire)
  /\ Len(got_log) <= Len(put_log)
  /\ wire' = <<>>
  /\ got_log' = Append(got_log, GotError("EOFError"))
  /\ UNCHANGED <<wire_closed, put_log, put_errors>>
  /\ UNCHANGED <<svars, wvars, ovars>>

\* a queue used on its own: no server is started on it
ServerIdle ==
  /\ running = FALSE
  /\ loop_alive = FALSE
  /\ stop_scheduled = FALSE
  /\ exited = FALSE
  /\ command_handlers = BuiltinHandlers
  /\ default_handler = NoneStr
  /\ response_futures = <<>>
  /\ next_request_id = 0
  /\ in_pipe = <<>>
  /\ in_closed = FALSE
  /\ eof_reads = 0
  /\ host_sent = 0
  /\ out_pipe = <<>>
  /\ out_by = <<>>
  /\ tasks = <<>>
  /\ calls = <<>>
  /\ discarded = <<>>

InitTransport == ServerIdle /\ TransportIdle /\ WrapperIdle /\ OthersIdle

NextTransport ==
  \/ \E obj \in PutValues : Put(obj)
  \/ \E obj \in PutValues : PutRefused(obj)
  \/ Get
  \/ Close
  \/ GetEOF

SpecTransport == InitTransport /\ [][NextTransport]_vars

(***************************************************************************)
(* Properties of the transport.                                            *)
(***************************************************************************)
RECURSIVE IsJson(_)
IsJson(v) ==
  CASE v.t = "list" -> \A i \in 1..Len(v.l) : IsJson(v.l[i])
    [] v.t = "dict" -> \A i \in 1..Len(v.m) : IsJson(v.m[i][2])
    [] v.t \in {"tuple", "object"} -> FALSE
    [] OTHER -> TRUE

\* the complete lines of a text, each decoded as a get would
RECURSIVE DecodedLines(_)
DecodedLines(w) ==
  IF ~HasLine(w) THEN <<>>
  ELSE LET chunk == SubSeq(w, 1, FirstNewline(w, 1))
       IN <<Loads(Strip(chunk))>>
          \o DecodedLines(SubSeq(w, Len(chunk) + 1, Len(w)))

\* C8: every JSON value put on one end is what the get on the peer end
\* that matches it returns: the i-th get returns a value, and that value
\* equals the i-th value put.
C8_RoundTrip ==
  \A i \in 1..Len(got_log) :
    (i <= Len(put_log) /\ IsJson(put_log[i])) => got_log[i] = Got(put_log[i])

\* a string holding a newline, a quote, a backslash and a tab, and a nested
\* message, have been put and got
C8_Witness ==
  /\ Len(got_log) = 2
  /\ got_log[1] = Got(JStr(<<"x", NL, "y">>))
  /\ got_log[2] = Got(Message)
  /\ put_log = <<JStr(<<"x", NL, "y">>), Message>>

Param(name) ==
  [name |-> name, kind |-> "plain", has_default |-> FALSE, default |-> 0]
ParamDefault(name, default) ==
  [name |-> name, kind |-> "plain", has_default |-> TRUE, default |-> default]
VarKeyword(name) ==
  [name |-> name, kind |-> "var_kw", has_default |-> FALSE, default |-> 0]

\* the methods wrapped in the checked runs: their parameters, and whether
\* they are coroutine functions
\*   async def m(self, a, b=1)          async def add(self, x, y)
\*   def scale(self, x, y=2)            async def collect(self, a, **kwargs)
\*   async def reset(self)              async def calculate_average(self, values)
\*   def describe(self)
Methods ==
  [ m       |-> [params |-> <<Param("a"), ParamDefault("b", 1)>>,
                 is_async |-> TRUE],
    add     |-> [params |-> <<Param("x"), Param("y")>>, is_async |-> TRUE],
    scale   |-> [params |-> <<Param("x"), ParamDefault("y", 2)>>,
                 is_async |-> FALSE],
    collect |-> [params |-> <<Param("a"), VarKeyword("kwargs")>>,
                 is_async |-> TRUE],
    reset   |-> [params |-> <<>>, is_async |-> TRUE],
    calculate_average |-> [params |-> <<Param("values")>>, is_async |-> TRUE],
    describe |-> [params |-> <<>>, is_async |-> FALSE] ]

\* what each method returns for its arguments; reset returns None,
\* calculate_average is given the list of the one number it is called with,
\* and describe returns a dict that holds a request_id of its own
MethodBody(name, args) ==
  CASE name = "m" -> PyScalar(ToString(10 * args["a"] + args["b"]))
    [] name = "add" -> PyScalar(ToString(args["x"] + args["y"]))
    [] name = "scale" -> PyScalar(ToString(args["x"] * args["y"]))
    [] name = "collect" ->
         PyScalar(ToString(args["a"]
                           + 100 * Cardinality(DOMAIN args["kwargs"])))
    [] name = "calculate_average" -> PyScalar(ToString(args["values"]))
    [] name = "describe" ->
         PyDict(DictSet(DictSet(EmptyDict, "status", "ready"),
                        "request_id", <<"o", "l", "d">>))
    [] OTHER -> PyNone

\* the data of the checked requests: None, every dict over DataKeys with
\* values in DataVals, and the values that are no dict, a falsy one (0)
\* among them
DataKeys == {"a", "b", "x", "y", "kwargs", "zz"}
DataVals == {3, 7}
OtherVals == {0, 3, 7}
DataSet ==
  {NoData}
    \cup {DictData(f) : f \in UNION {[S -> DataVals] : S \in SUBSET DataKeys}}
    \cup {OtherData(v) : v \in OtherVals}

\* the names of sig.parameters
ParamNames(params) == {params[i].name : i \in 1..Len(params)}

\* lines 170 to 182: the keyword arguments taken from the data
ExtractAll(params, data) ==
  IF data.kind = "dict" THEN data.m
  ELSE IF data.kind = "other" /\ Len(params) > 0
  THEN params[1].name :> data.v
  ELSE EmptyMap

ExtractDictOnly(params, data) ==
  IF data.kind = "dict" THEN Restrict(data.m, ParamNames(params))
  ELSE EmptyMap

Extract(params, data) ==
  IF data.kind = "dict" THEN Restrict(data.m, ParamNames(params))
  ELSE IF data.kind = "other" /\ Len(params) > 0
  THEN params[1].name :> data.v
  ELSE EmptyMap

\* method(**kwargs): how the call binds the keyword arguments to the
\* parameters, or the TypeError it raises
Bind(params, kwargs) ==
  LET plain == {params[i].name :
                  i \in {j \in 1..Len(params) : params[j].kind = "plain"}}
      varkw == ParamNames(params) \ plain
      extras == (DOMAIN kwargs) \ plain
      dflt(p) == params[CHOOSE i \in 1..Len(params) : params[i].name = p]
      missing == {p \in plain : ~dflt(p).has_default /\ p \notin DOMAIN kwargs}
  IN IF extras # {} /\ varkw = {}
     THEN [ok |-> FALSE, args |-> EmptyMap,
           exc |-> Exc("TypeError", "got an unexpected keyword argument")]
     ELSE IF missing # {}
     THEN [ok |-> FALSE, args |-> EmptyMap,
           exc |-> Exc("TypeError", "missing required positional argument")]
     ELSE [ok |-> TRUE, exc |-> NoExc,
           args |-> [p \in plain \cup varkw |->
                       IF p \in varkw THEN Restrict(kwargs, extras)
                       ELSE IF p \in DOMAIN kwargs THEN kwargs[p]
                       ELSE dflt(p).default]]

\* lines 166 to 185: the wrapper is called, extracts the keyword arguments
\* and calls the method; a coroutine function hands back a coroutine, any
\* other method runs
WrapperCall(name, data, request_id) ==
  /\ w_pc = "idle"
  /\ LET params == Methods[name].params
         kwargs == Extract(params, data)
         bound == Bind(params, kwargs)
     IN /\ w_method' = name
        /\ w_data' = data
        /\ w_request_id' = request_id
        /\ w_kwargs' = kwargs
        /\ w_args' = bound.args
        /\ IF ~bound.ok
           THEN w_pc' = "raised" /\ w_result' = Raised(bound.exc)
           ELSE IF Methods[name].is_async
           THEN w_pc' = "coroutine" /\ w_result' = NoOutcome
           ELSE /\ w_pc' = "returned"
                /\ w_result' = Returned(MethodBody(name, bound.args))
  /\ UNCHANGED w_frames
  /\ UNCHANGED <<svars, tvars, ovars>>

\* lines 188 to 191: the coroutine is awaited and its result returned
WrapperAwait ==
  /\ w_pc = "coroutine"
  /\ w_pc' = "returned"
  /\ w_result' = Returned(MethodBody(w_method, w_args))
  /\ UNCHANGED <<w_method, w_data, w_request_id, w_kwargs, w_args, w_frames>>
  /\ UNCHANGED <<svars, tvars, ovars>>

\* _process_command, once the wrapper has returned or raised
WrapperReply ==
  /\ w_pc \in {"returned", "raised"}
  /\ w_pc' = "done"
  /\ w_frames' = OutcomeFrames(w_result, w_request_id)
  /\ UNCHANGED <<w_method, w_data, w_request_id, w_kwargs, w_args, w_result>>
  /\ UNCHANGED <<svars, tvars, ovars>>

InitWrapper == ServerIdle /\ TransportIdle /\ WrapperIdle /\ OthersIdle

NextWrapper ==
  \/ \E name \in DOMAIN Methods, data \in DataSet, request_id \in HostIds :
       WrapperCall(name, data, request_id)
  \/ WrapperAwait
  \/ WrapperReply

SpecWrapper == InitWrapper /\ [][NextWrapper]_vars

(***************************************************************************)
(* Properties of the method wrapper.                                       *)
(***************************************************************************)
\* C10: when the data is a mapping, the keyword arguments of the call are
\* exactly the keys of the data that name a parameter, with the data's
\* values; when the call binds, each parameter has the data's value if the
\* data names it and its default otherwise; what the wrapper returns is the
\* method's result for these arguments, and a reply made for the request
\* carries that result.  For m(self, a, b=1) and data {a: 7} the call is
\* m(a=7, b=1).
C10_MappingCall ==
  (w_pc # "idle" /\ w_data.kind = "dict") =>
    LET params == Methods[w_method].params
        named == {k \in DOMAIN w_data.m :
                    \E i \in 1..Len(params) : params[i].name = k}
        required == {params[i].name :
                       i \in {j \in 1..Len(params) :
                                /\ params[j].kind = "plain"
                                /\ ~params[j].has_default}}
    IN /\ DOMAIN w_kwargs = named
       /\ \A k \in named : w_kwargs[k] = w_data.m[k]
       /\ (required \subseteq DOMAIN w_data.m) =>
            /\ w_pc # "raised"
            /\ \A i \in 1..Len(params) :
                 params[i].kind = "plain" =>
                   w_args[params[i].name] =
                     IF params[i].name \in DOMAIN w_data.m
                     THEN w_data.m[params[i].name]
                     ELSE params[i].default
            /\ w_pc \in {"returned", "done"} =>
                 w_result = Returned(MethodBody(w_method, w_args))
            /\ (w_pc = "done" /\ w_frames # <<>>) =>
                 /\ Len(w_frames) = 1
                 /\ w_frames[1].request_id = w_request_id
                 /\ IF w_result.value.kind = "dict"
                    THEN w_frames[1] =
                           DictSet(w_result.value.d, "request_id",
                                   w_request_id)
                    ELSE /\ w_frames[1].has = {"result", "request_id"}
                         /\ w_frames[1].result = w_result.value.s
            /\ (w_method = "m" /\ w_data.m = [a |-> 7]) =>
                 w_args = [a |-> 7, b |-> 1]

\* m was called with data {a: 7, zz: 3}, ran as m(a=7, b=1), and its result
\* 71 was replied
C10_Witness ==
  /\ w_pc = "done"
  /\ w_method = "m"
  /\ w_data = DictData([a |-> 7, zz |-> 3])
  /\ w_args = [a |-> 7, b |-> 1]
  /\ Len(w_frames) = 1
  /\ w_frames[1].result = "71"

\* C11 as claimed: whatever the data that is no mapping, null included, a
\* method that has a parameter is called with that value as its first
\* argument and with no other argument.
C11_NonMappingIsFirstArgument ==
  (w_pc # "idle" /\ w_data.kind # "dict"
     /\ Len(Methods[w_method].params) > 0) =>
    /\ DOMAIN w_kwargs = {Methods[w_method].params[1].name}
    /\ w_data.kind = "other" =>
         w_kwargs[Methods[w_method].params[1].name] = w_data.v

\* C11 as amended: data that is neither a mapping nor null is passed, under
\* the name of the method's first parameter, as the only argument of the
\* call, so that the first parameter has that value and every other one its
\* default; with null data, or a method without parameters, the call has no
\* argument at all.
C11_NonNullIsFirstArgument ==
  (w_pc # "idle" /\ w_data.kind # "dict") =>
    LET params == Methods[w_method].params
    IN IF w_data.kind = "other" /\ Len(params) > 0
       THEN /\ DOMAIN w_kwargs = {params[1].name}
            /\ w_kwargs[params[1].name] = w_data.v
            /\ (w_pc # "raised" /\ w_result.kind # "raise") =>
                 /\ w_args[params[1].name] = w_data.v
                 /\ \A i \in 2..Len(params) :
                      params[i].kind = "plain" =>
                        w_args[params[i].name] = params[i].default
       ELSE w_kwargs = EmptyMap

\* calculate_average was called with the falsy value as its data, got it
\* as values and returned
C11_Witness ==
  /\ w_pc = "done" /\ w_method = "calculate_average"
  /\ w_data = OtherData(0) /\ w_args = [values |-> 0]
  /\ w_result.kind = "return"

(***************************************************************************)
(* Auto-exposure and __get_methods__: a server subclass is constructed,    *)
(* handlers may be registered by hand, and the host asks for the methods.  *)
(***************************************************************************)
\* the methods every instance inherits from JSONQueueServer, with their
\* parameters (a default of None or 5.0 is written 0 or 5)
BaseMembers ==
  [ register_method     |-> <<Param("name"), Param("method")>>,
    register_handler    |-> <<Param("command"), Param("handler")>>,
    set_default_handler |-> <<Param("handler")>>,
    start               |-> <<>>,
    stop                |-> <<>>,
    send_response       |-> <<Param("response"), ParamDefault("request_id", 0)>>,
    request             |-> <<Param("command"), ParamDefault("data", 0),
                              ParamDefault("timeout", 5)>>,
    async_request       |-> <<Param("command"), ParamDefault("data", 0),
                              ParamDefault("timeout", 5)>>,
    _handle_exit        |-> <<Param("data"), Param("request_id")>>,
    _process_command    |-> <<Param("command"), Param("data"),
                              Param("request_id")>> ]

\* the methods a subclass may define: public ones, public ones named like
\* built-in commands, and a private one
SubclassMembers ==
  [ add      |-> Methods["add"].params,
    m        |-> Methods["m"].params,
    exit     |-> <<>>,
    shutdown |-> <<ParamDefault("delay", 0)>>,
    _internal_calculation |-> <<Param("values")>> ]

\* name.startswith('_'), on the names of the checked runs
IsPrivate(name) ==
  name \in {"_handle_exit", "_process_command", "_internal_calculation",
            "__get_methods__"}

\* __init__ of a subclass defining the methods cls: the built-in handlers
\* are registered, then _expose_methods registers every public bound method
\* whose name is not registered yet
Construct(cls, expose) ==
  /\ x_pc = "new"
  /\ LET members == Restrict(SubclassMembers, cls) @@ BaseMembers
         builtin == [n \in DOMAIN BuiltinHandlers |-> "builtin"]
         exposed == IF expose
                    THEN {n \in DOMAIN members :
                            ~IsPrivate(n) /\ n \notin DOMAIN builtin}
                    ELSE {}
     IN /\ x_members' = members
        /\ x_exposed' = exposed
        /\ x_handlers' = [n \in exposed |-> "method"] @@ builtin
  /\ x_expose' = expose
  /\ x_pc' = "built"
  /\ UNCHANGED x_reply
  /\ UNCHANGED <<svars, tvars, wvars, rvars, bvars, pvars, cvars, mvars, nvars>>

\* register_handler(command, handler), called by the program
RegisterHandler(command) ==
  /\ x_pc = "built"
  /\ x_handlers' = (command :> "handler") @@ x_handlers
  /\ UNCHANGED <<x_pc, x_expose, x_members, x_exposed, x_reply>>
  /\ UNCHANGED <<svars, tvars, wvars, rvars, bvars, pvars, cvars, mvars, nvars>>

\* _handle_get_methods: every public bound method whose name is a key of
\* command_handlers, with its parameters, each required when it has no
\* default
GetMethods ==
  /\ x_pc = "built"
  /\ x_reply' =
       [n \in {k \in DOMAIN x_members :
                 ~IsPrivate(k) /\ k \in DOMAIN x_handlers} |->
          [i \in 1..Len(x_members[n]) |->
             [name |-> x_members[n][i].name,
              required |-> ~x_members[n][i].has_default]]]
  /\ x_pc' = "asked"
  /\ UNCHANGED <<x_expose, x_members, x_handlers, x_exposed>>
  /\ UNCHANGED <<svars, tvars, wvars, rvars, bvars, pvars, cvars, mvars, nvars>>

\* nothing constructed, nothing started
InitIdle ==
  ServerIdle /\ TransportIdle /\ WrapperIdle /\ OthersIdle

NextExpose ==
  \/ \E cls \in SUBSET DOMAIN SubclassMembers, expose \in BOOLEAN :
       Construct(cls, expose)
  \/ \E command \in {"add", "stop", "custom"} : RegisterHandler(command)
  \/ GetMethods

SpecExpose == InitIdle /\ [][NextExpose]_vars

\* C12 as claimed: on a server constructed with auto-exposure, the names
\* __get_methods__ returns are exactly the names auto-exposure registered,
\* and each parameter returned is required exactly when it has no default.
C12_GetMethodsIsExposed ==
  (x_pc = "asked" /\ x_expose) =>
    /\ DOMAIN x_reply = x_exposed
    /\ \A n \in DOMAIN x_reply :
         /\ Len(x_reply[n]) = Len(x_members[n])
         /\ \A i \in 1..Len(x_reply[n]) :
              /\ x_reply[n][i].name = x_members[n][i].name
              /\ x_reply[n][i].required = ~x_members[n][i].has_default

\* C13: what send_response writes for a request id is one frame: for a
\* value that is no mapping, {result: value, request_id: id} and nothing
\* else; for a mapping (a handler's dict, or the error dict of a handler
\* that raised), the mapping's own keys and values with request_id set to
\* the id, whatever request_id the mapping held before.
C13_FrameCarriesGivenId ==
  (w_pc = "done" /\ w_request_id # NoneId
     /\ (w_result.kind = "raise" \/ w_result.value # PyNone)) =>
    /\ Len(w_frames) = 1
    /\ w_frames[1].request_id = w_request_id
    /\ IF w_result.kind = "raise"
       THEN w_frames[1].has = {"error", "traceback", "request_id"}
       ELSE IF w_result.value.kind = "dict"
       THEN /\ w_frames[1].has = w_result.value.d.has \cup {"request_id"}
            /\ \A k \in w_result.value.d.has \ {"request_id"} :
                 w_frames[1][k] = w_result.value.d[k]
       ELSE /\ w_frames[1].has = {"result", "request_id"}
            /\ w_frames[1].result = w_result.value.s

\* describe returned a dict holding the request_id "old", and the frame
\* written for the request r1 holds r1
C13_Witness ==
  /\ w_pc = "done" /\ w_method = "describe"
  /\ w_result.value.d.request_id = <<"o", "l", "d">>
  /\ w_request_id = <<"r", "1">>
  /\ Len(w_frames) = 1
  /\ w_frames[1].request_id = <<"r", "1">>
  /\ w_frames[1].status = "ready"

(***************************************************************************)
(* Properties of the built-in commands and of the end of the input.        *)
(***************************************************************************)
\* C14: once a shutdown request has been processed, its only reply is
\* {status: "shutting_down"} with its id (none when it has no id), running
\* is false, and from then on no task is created for an inbound message.
C14_InvPart ==
  \A t \in 1..Len(tasks) :
    (tasks[t].command = "shutdown" /\ tasks[t].pc = "done") =>
      /\ ~running
      /\ IF tasks[t].request_id = NoneId THEN TaskFrames(t) = <<>>
         ELSE /\ Len(TaskFrames(t)) = 1
              /\ TaskFrames(t)[1].has = {"status", "request_id"}
              /\ TaskFrames(t)[1].status = "shutting_down"
              /\ TaskFrames(t)[1].request_id = tasks[t].request_id

C14_ActPart ==
  (\E t \in 1..Len(tasks) :
     tasks[t].command = "shutdown" /\ tasks[t].pc = "done")
  => Len(tasks') = Len(tasks)

C14_ShutdownStopsDispatch == [](C14_InvPart) /\ [][C14_ActPart]_vars

\* a shutdown request with an id was processed, the loop has stopped, and a
\* message the host wrote afterwards is waiting in the pipe
C14_Witness ==
  /\ Len(tasks) = 1
  /\ tasks[1].command = "shutdown" /\ tasks[1].pc = "done"
  /\ tasks[1].request_id # NoneId
  /\ ~loop_alive
  /\ Len(in_pipe) = 1

\* C15: an exit request that has been dispatched is always in a state where
\* its handler can run, and its handler ends in no other way than by the
\* termination of the process; when the request has an id the one frame
\* written for it is {status: "exiting"} with that id and it is the last
\* frame of the out pipe, when it has none nothing is written for it; while
\* it waits no other request is dispatched and no step cancels it or stops
\* the loop, and after the termination nothing is written and no handler
\* runs.
C15_InvPart ==
  \A t \in 1..Len(tasks) :
    tasks[t].command = "exit" =>
      /\ tasks[t].pc \in {"ready", "exited"}
      /\ tasks[t].pc = "ready" => LoopRuns
      /\ tasks[t].pc = "exited" =>
           /\ exited
           /\ IF tasks[t].request_id = NoneId THEN TaskFrames(t) = <<>>
              ELSE /\ Len(TaskFrames(t)) = 1
                   /\ TaskFrames(t)[1].has = {"status", "request_id"}
                   /\ TaskFrames(t)[1].status = "exiting"
                   /\ TaskFrames(t)[1].request_id = tasks[t].request_id
                   /\ out_by[Len(out_by)] = t

C15_ActPart ==
  /\ exited => (out_pipe' = out_pipe /\ tasks' = tasks /\ exited')
  /\ \A t \in 1..Len(tasks) :
       (tasks[t].command = "exit" /\ tasks[t].pc = "ready") =>
         /\ Len(tasks') = Len(tasks)
         /\ tasks'[t].pc \in {"ready", "exited"}
         /\ tasks'[t].pc = "ready" => LoopRuns'

C16_InvPart ==
  /\ eof_reads <= 1
  /\ eof_reads = 1 => (~running /\ in_closed /\ in_pipe = <<>>)

C16_ActPart ==
  eof_reads = 1 =>
    /\ Len(tasks') = Len(tasks)
    /\ in_pipe' = in_pipe
    /\ discarded' = discarded
    /\ ~running'

C16_EndOfStreamStopsLoop == [](C16_InvPart) /\ [][C16_ActPart]_vars

\* the host closed the pipe after a request that was processed, and the read
\* after it found the end of the stream
C16_Witness ==
  /\ eof_reads = 1
  /\ Len(tasks) = 1 /\ tasks[1].pc = "done"
  /\ loop_alive /\ ~exited /\ ~stop_scheduled

(***************************************************************************)
(* The REPL script.  A line of a submission is named by what the           *)
(* interpreter does with it: "ok" runs, "raise" raises an Exception,       *)
(* "exit" raises SystemExit, "syntax" does not compile, "head" opens a     *)
(* block whose body are the lines after it; "" is the empty line.  A       *)
(* submission of one line that starts with "__CAPTURE_COMBINED__ =" has    *)
(* the text after the "=" as its flag.                                     *)
(***************************************************************************)
\* the right-hand sides of the capture toggles the host submits
FlagText ==
  [True |-> <<"T", "r", "u", "e">>,
   False |-> <<"F", "a", "l", "s", "e">>,
   bogus |-> <<"b", "o", "g", "u", "s">>,
   Differ |-> <<"1", " ", "=", "=", " ", "2">>]

\* the one line of a toggle
ToggleLine(flag) ==
  <<"_", "_", "C", "A", "P", "T", "U", "R", "E", "_", "C", "O", "M", "B",
    "I", "N", "E", "D", "_", "_", " ", "=", " ">> \o FlagText[flag]

\* text.split("=")[1]: what stands between the first "=" and the next
RECURSIVE UntilEq(_)
UntilEq(text) ==
  IF text = <<>> \/ text[1] = "=" THEN <<>>
  ELSE <<text[1]>> \o UntilEq(Tail(text))
SecondField(text) ==
  UntilEq(SubSeq(text, Len(UntilEq(text)) + 2, Len(text)))

\* eval(code_buffer.split("=")[1].strip()): whether it returns, and the
\* truth of its value
EvalCapture(code_buffer) ==
  LET text == Strip(SecondField(code_buffer))
  IN CASE text = <<"T", "r", "u", "e">> -> [ok |-> TRUE, v |-> TRUE]
       [] text = <<"F", "a", "l", "s", "e">> -> [ok |-> TRUE, v |-> FALSE]
       [] text = <<"1">> -> [ok |-> TRUE, v |-> TRUE]
       [] OTHER -> [ok |-> FALSE, v |-> FALSE]

Submissions ==
  LET LineKinds == {"ok", "raise", "syntax", "exit", "head"}
      Sources == UNION {[1..n -> LineKinds] : n \in 0..MaxLines}
  IN {[flag |-> "", lines |-> l] :
        l \in {s \in Sources : \A i \in 2..Len(s) : s[i] # "head"}}
     \cup {[flag |-> f, lines |-> <<"ok">>] : f \in DOMAIN FlagText}

\* InteractiveConsole.push with REPLInterpreter.runcode: the line joins the
\* buffer, runsource compiles the buffer and runs it when it is complete
push(st, line) ==
  LET buf == Append(st.buffer, line)
      body == SelectSeq(Tail(buf), LAMBDA l : l # "")
      stmts == IF buf[1] = "head" THEN body ELSE <<buf[1]>>
      compiled ==
        IF \E i \in 1..Len(buf) : buf[i] = "syntax" THEN "syntax"
        ELSE IF buf[1] = "head" /\ (line # "" \/ body = <<>>) THEN "more"
        ELSE "code"
      bad == {i \in 1..Len(stmts) : stmts[i] \in {"raise", "exit"}}
      first == CHOOSE i \in bad : \A j \in bad : i <= j
  IN CASE compiled = "syntax" ->
            [st EXCEPT !.buffer = <<>>, !.more = FALSE]
       [] compiled = "more" ->
            [st EXCEPT !.buffer = buf, !.more = TRUE]
       [] compiled = "code" /\ bad = {} ->
            [st EXCEPT !.buffer = <<>>, !.more = FALSE,
                       !.last_exception = NoExc]
       [] compiled = "code" /\ bad # {} /\ stmts[first] = "raise" ->
            [st EXCEPT !.buffer = <<>>, !.more = FALSE,
                       !.last_exception = Exc("ValueError", "boom")]
       [] OTHER ->
            [st EXCEPT !.buffer = buf, !.exited = TRUE]

\* for line in lines: result = self.push(line)
RECURSIVE PushLines(_, _)
PushLines(st, lines) ==
  IF lines = <<>> \/ st.exited THEN st
  ELSE PushLines(push(st, Head(lines)), Tail(lines))

\* REPLInterpreter.conrun: the records it writes to the status pipe, the
\* buffer it leaves and the exception that leaves it ("" when it returns)
conrun(source, buffer, capture, write_raises, out_open) ==
  LET pushed ==
        PushLines([buffer |-> buffer, last_exception |-> NoExc,
                   more |-> FALSE, exited |-> FALSE], source)
      st == IF pushed.more /\ ~pushed.exited THEN push(pushed, "") ELSE pushed
      ExceptionRecord(e) ==
        [type |-> "exception", exception |-> e.cls, message |-> e.msg,
         traceback |-> FormatExc(e)]
      record ==
        IF st.last_exception # NoExc THEN ExceptionRecord(st.last_exception)
        ELSE [type |-> "status", message |-> "ok"]
  IN CASE st.exited ->
            [status |-> <<>>, buffer |-> st.buffer, raised |-> "SystemExit"]
       [] ~st.exited /\ capture /\ ~out_open ->
            [status |-> <<>>, buffer |-> st.buffer,
             raised |-> "BrokenPipeError"]
       [] ~st.exited /\ capture /\ out_open /\ write_raises ->
            [status |->
               <<ExceptionRecord(Exc("UnicodeEncodeError", "surrogates"))>>,
             buffer |-> st.buffer, raised |-> ""]
       [] OTHER ->
            [status |-> <<record>>, buffer |-> st.buffer, raised |-> ""]

\* f_status.write(json.dumps(exception_info) + "\n")
WriteStatusFirst(status, records) == records \o status
WriteStatus(status, records) == status \o records

\* the host writes a submission and its delimiter to the in pipe
HostSubmit ==
  /\ r_sent < MaxSubs
  /\ \E sub \in Submissions : r_in' = Append(r_in, sub)
  /\ r_sent' = r_sent + 1
  /\ UNCHANGED <<svars, tvars, wvars, evars, bvars, pvars, cvars, mvars, nvars>>
  /\ UNCHANGED <<r_pc, r_out_open, r_capture, r_stale, r_buffer, r_executed,
                 r_status>>

\* the host closes its end of the out pipe
HostCloseOut ==
  /\ r_out_open
  /\ r_out_open' = FALSE
  /\ UNCHANGED <<svars, tvars, wvars, evars, bvars, pvars, cvars, mvars, nvars>>
  /\ UNCHANGED <<r_pc, r_in, r_sent, r_capture, r_stale, r_buffer,
                 r_executed, r_status>>

\* run_repl: one turn of its loop, from reading a submission to the
\* delimiter written after it
run_repl ==
  /\ r_pc = "reading"
  /\ r_in # <<>>
  /\ r_in' = Tail(r_in)
  /\ LET sub == Head(r_in)
         linecount == IF Len(sub.lines) <= 1 THEN 1 ELSE Len(sub.lines)
     IN IF (r_stale \/ sub.flag # "") /\ linecount = 1
        THEN IF ~r_stale /\ EvalCapture(ToggleLine(sub.flag)).ok
             THEN /\ r_capture' = EvalCapture(ToggleLine(sub.flag)).v
                  /\ UNCHANGED <<r_pc, r_stale, r_buffer, r_executed,
                                 r_status>>
             ELSE \* eval raises, the error goes to the out pipe
                  /\ r_stale' = TRUE
                  /\ r_pc' = IF r_out_open THEN "reading" ELSE "ended"
                  /\ UNCHANGED <<r_capture, r_buffer, r_executed, r_status>>
        ELSE \E write_raises \in (IF r_capture THEN BOOLEAN ELSE {FALSE}),
                merged \in {"ok", "raise", "syntax"} :
               LET source == IF r_stale THEN <<merged>> \o Tail(sub.lines)
                             ELSE sub.lines
                   res == conrun(source, r_buffer, r_capture, write_raises,
                                 r_out_open)
               IN /\ ~r_stale => merged = "ok"
                  /\ r_executed' =
                       Append(r_executed,
                              [source |-> source, buffer |-> r_buffer,
                               capture |-> r_capture,
                               write_raises |-> write_raises,
                               out_open |-> r_out_open])
                  /\ r_status' = WriteStatus(r_status, res.status)
                  /\ r_buffer' = res.buffer
                  /\ r_stale' = FALSE
                  /\ r_pc' = IF res.raised = "" /\ r_out_open THEN "reading"
                             ELSE "ended"
                  /\ UNCHANGED r_capture
  /\ UNCHANGED <<r_sent, r_out_open>>
  /\ UNCHANGED <<svars, tvars, wvars, evars, bvars, pvars, cvars, mvars, nvars>>

NextRepl ==
  \/ HostSubmit
  \/ HostCloseOut
  \/ run_repl

SpecRepl == InitIdle /\ [][NextRepl]_vars

(***************************************************************************)
(* C17.  As stated: every submission that conrun executes gets exactly one *)
(* record on the status pipe, the k-th record being the one of the k-th    *)
(* executed submission.  This fails for a submission that ends the         *)
(* interpreter: one that raises SystemExit, or one run with capture on     *)
(* after the host has closed the out pipe.                                 *)
(***************************************************************************)
C17_RecordOf(k) ==
  conrun(r_executed[k].source, r_executed[k].buffer, r_executed[k].capture,
         r_executed[k].write_raises, r_executed[k].out_open)

C18_OkOnlyIfAllRan ==
  \A k \in 1..Len(r_status) :
    LET source == r_executed[k].source
        failed ==
          \E i \in 1..Len(source) : source[i] \in {"raise", "syntax"}
    IN /\ r_status[k] = [type |-> "status", message |-> "ok"] => ~failed
       /\ failed =>
            /\ r_status[k].type = "exception"
            /\ {"exception", "message", "traceback"}
                 \subseteq DOMAIN r_status[k]

(***************************************************************************)
(* The bootstrap script from the start of its watchdog: the main thread    *)
(* executes the entry module and reports how it ended, the watchdog thread *)
(* probes the host.                                                        *)
(***************************************************************************)
\* monitor_thread.start(), and the os.getppid() the thread begins with
StartWatchdog ==
  /\ b_pc = "start"
  /\ b_pc' = "exec"
  /\ \E p \in {"win32", "posix"} : b_platform' = p
  /\ b_watchdog' = "probe"
  /\ b_parent' =
       IF b_host = "alive" \/ b_platform' = "win32" THEN "host" ELSE "init"
  /\ UNCHANGED <<b_host, b_ended_by, b_entry_records, b_status>>
  /\ UNCHANGED <<svars, tvars, wvars, evars, rvars, pvars, cvars, mvars, nvars>>

\* the entry module writes a record of its own to jumpboot.Status_in
EntryWrites ==
  /\ b_pc = "exec"
  /\ b_entry_records < MaxRecords
  /\ \E rec \in {[type |-> "status", message |-> "ok"],
                 [type |-> "exception", exception |-> "ValueError",
                  message |-> "boom",
                  traceback |-> FormatExc(Exc("ValueError", "boom"))]} :
       b_status' = Append(b_status, rec)
  /\ b_entry_records' = b_entry_records + 1
  /\ UNCHANGED <<b_pc, b_platform, b_host, b_watchdog, b_parent, b_ended_by>>
  /\ UNCHANGED <<svars, tvars, wvars, evars, rvars, pvars, cvars, mvars, nvars>>

\* loader.exec_module(main_module) ends and "except Exception" has its turn
EntryEndsSilent(how) ==
  /\ b_pc = "exec"
  /\ b_ended_by' = how
  /\ b_status' = b_status
  /\ b_pc' = "finally"
  /\ UNCHANGED <<b_platform, b_host, b_watchdog, b_parent, b_entry_records>>
  /\ UNCHANGED <<svars, tvars, wvars, evars, rvars, pvars, cvars, mvars, nvars>>
EntryEnds(how) ==
  /\ b_pc = "exec"
  /\ b_ended_by' = how
  /\ b_status' =
       IF how = "RuntimeError"
       THEN Append(b_status,
                   [type |-> "exception", exception |-> how,
                    message |-> "failed",
                    traceback |-> FormatExc(Exc(how, "failed"))])
       ELSE b_status
  /\ b_pc' = "finally"
  /\ UNCHANGED <<b_platform, b_host, b_watchdog, b_parent, b_entry_records>>
  /\ UNCHANGED <<svars, tvars, wvars, evars, rvars, pvars, cvars, mvars, nvars>>

\* finally: the exit record, then the script is over
Finally ==
  /\ b_pc = "finally"
  /\ b_status' = Append(b_status, [type |-> "status", message |-> "exit"])
  /\ b_pc' = "done"
  /\ UNCHANGED <<b_platform, b_host, b_watchdog, b_parent, b_ended_by,
                 b_entry_records>>
  /\ UNCHANGED <<svars, tvars, wvars, evars, rvars, pvars, cvars, mvars, nvars>>

\* the host process ends; its process id is free, or given to a process
\* that the child may signal
HostGoes ==
  /\ b_host = "alive"
  /\ \E h \in (IF b_watchdog = "off" THEN {"early"} ELSE {"gone", "reused"}) :
       b_host' = h
  /\ UNCHANGED <<b_pc, b_platform, b_watchdog, b_parent, b_ended_by,
                 b_entry_records, b_status>>
  /\ UNCHANGED <<svars, tvars, wvars, evars, rvars, pvars, cvars, mvars, nvars>>

\* watchdog_monitor_parent: one probe of the parent, or the end of one sleep
watchdog_monitor_parent ==
  /\ b_pc \in {"exec", "finally"}
  /\ b_watchdog \in {"probe", "sleep"}
  /\ IF b_watchdog = "sleep"
     THEN /\ b_watchdog' = "probe"
          /\ UNCHANGED b_pc
     ELSE \E init_refuses \in BOOLEAN :
            LET dead ==
                  CASE b_platform = "win32" -> FALSE
                    [] b_platform # "win32" /\ b_parent = "host" ->
                         b_host = "gone"
                    [] OTHER -> init_refuses
            IN IF dead
               THEN /\ b_pc' = "killed"
                    /\ UNCHANGED b_watchdog
               ELSE /\ b_watchdog' = "sleep"
                    /\ UNCHANGED b_pc
  /\ UNCHANGED <<b_platform, b_host, b_parent, b_ended_by, b_entry_records,
                 b_status>>
  /\ UNCHANGED <<svars, tvars, wvars, evars, rvars, pvars, cvars, mvars, nvars>>

NextBootstrap ==
  \/ StartWatchdog
  \/ EntryWrites
  \/ \E how \in {"return", "RuntimeError", "SystemExit"} : EntryEnds(how)
  \/ Finally
  \/ HostGoes
  \/ watchdog_monitor_parent

SpecBootstrap == InitIdle /\ [][NextBootstrap]_vars

\* the watchdog thread is scheduled again and again, and its sleep ends
SpecBootstrapLive == SpecBootstrap /\ WF_vars(watchdog_monitor_parent)

(***************************************************************************)
(* C19.  As stated: when the execution of the entry module has ended, by   *)
(* returning or by an uncaught exception, exactly one exit record is on    *)
(* the status channel and it is the last record; when it ended by an       *)
(* exception, the loader wrote exactly one exception record before it.     *)
(* "except Exception" does not catch SystemExit, so an entry module that   *)
(* ends by sys.exit() gets the exit record alone.                          *)
(***************************************************************************)
\* the records the loader wrote: those after the entry module's own
C19_LoaderRecords == SubSeq(b_status, b_entry_records + 1, Len(b_status))

C19_ExitRecord == [type |-> "status", message |-> "exit"]

\* one exit record at most, and nothing after it
C19_ExitIsLast ==
  \A i \in 1..Len(b_status) :
    b_status[i] = C19_ExitRecord => i = Len(b_status) /\ b_pc = "done"

\* C19 as stated: every exception that ends the entry module is reported
C19_ExitRecordAfterEveryException ==
  /\ C19_ExitIsLast
  /\ b_pc = "done" =>
       /\ b_status[Len(b_status)] = C19_ExitRecord
       /\ b_ended_by = "return" => C19_LoaderRecords = <<C19_ExitRecord>>
       /\ b_ended_by # "return" =>
            /\ Len(C19_LoaderRecords) = 2
            /\ C19_LoaderRecords[1].type = "exception"

\* C19 amended: when the execution of the entry module has ended, exactly
\* one exit record is on the status channel and it is the last record; when
\* it ended by an exception of class Exception the loader wrote exactly one
\* exception record, naming it, right before the exit record; when it
\* returned or ended by SystemExit the loader wrote the exit record alone
C19_ExitRecordIsLast ==
  /\ C19_ExitIsLast
  /\ b_pc = "done" =>
       /\ b_status[Len(b_status)] = C19_ExitRecord
       /\ b_ended_by \in {"return", "SystemExit"} =>
            C19_LoaderRecords = <<C19_ExitRecord>>
       /\ b_ended_by = "RuntimeError" =>
            /\ Len(C19_LoaderRecords) = 2
            /\ C19_LoaderRecords[1].type = "exception"
            /\ C19_LoaderRecords[1].exception = b_ended_by
            /\ C19_LoaderRecords[2] = C19_ExitRecord

\* the entry module wrote two records and ended by an exception; the loader
\* has written its two records
C19_Witness ==
  /\ b_pc = "done"
  /\ b_ended_by = "RuntimeError"
  /\ b_entry_records = 2
  /\ Len(b_status) = 4

(***************************************************************************)
(* C20.  If the host goes away after the watchdog has started, the child   *)
(* eventually terminates, whatever the main thread does.  On win32 the     *)
(* watchdog compares os.getppid() with its first value, and os.getppid()   *)
(* keeps returning the id of a parent that has exited: the probe never     *)
(* fails there.                                                            *)
(***************************************************************************)
C20_HostGoneChildTerminates ==
  (b_host \in {"gone", "reused"}) ~> (b_pc \in {"killed", "done"})

\* the part that holds: off win32, when the process id of the host is not
\* given to another process, the signal-zero probe fails and the child ends
C20_SignalProbeTerminates ==
  (b_platform = "posix" /\ b_host = "gone") ~> (b_pc \in {"killed", "done"})

(***************************************************************************)
(* A JSONQueue on two OS pipes.  readline on a blocking pipe waits for a   *)
(* line; on a pipe with O_NONBLOCK the text layer returns '' when no data  *)
(* is there.  flush on a pipe with O_NONBLOCK writes what the pipe has     *)
(* room for and raises BlockingIOError when characters are left, which the *)
(* buffer of write_pipe then keeps for the next flush or drops.            *)
(***************************************************************************)
PipeFrames == {Serialized(JInt(305)), Serialized(JBool(TRUE))}

\* JSONQueue(read_pipe, write_pipe): the pipes are used as they were opened
Open ==
  /\ p_pc = "new"
  /\ p_pc' = "open"
  /\ \E r \in BOOLEAN : p_read_nonblocking' = r
  /\ \E w \in BOOLEAN : p_write_nonblocking' = w
  /\ UNCHANGED <<p_get, p_clock, p_peer_wrote, p_pipe, p_buffer, p_seen,
                 p_retry, p_puts>>
  /\ UNCHANGED <<svars, tvars, wvars, evars, rvars, bvars, cvars, mvars, nvars>>

\* get(block=True, timeout=GetTimeout), from its call to its end:
\* readline returns a line, returns '' (EOFError), or does not return yet;
\* the test of the elapsed time sits under "except BlockingIOError", which
\* readline does not raise
read_with_timeout ==
  /\ p_pc = "open"
  /\ p_get \in {"idle", "waiting"}
  /\ p_get = "waiting" => p_peer_wrote
  /\ p_get' =
       IF p_peer_wrote THEN "value"
       ELSE IF p_read_nonblocking THEN "EOFError"
       ELSE "waiting"
  /\ UNCHANGED <<p_pc, p_read_nonblocking, p_write_nonblocking, p_clock,
                 p_peer_wrote, p_pipe, p_buffer, p_seen, p_retry, p_puts>>
  /\ UNCHANGED <<svars, tvars, wvars, evars, rvars, bvars, cvars, mvars, nvars>>

\* time.time() advances by one tick after the get was issued
Tick ==
  /\ p_get # "idle"
  /\ p_clock < MaxTicks
  /\ p_clock' = p_clock + 1
  /\ UNCHANGED <<p_pc, p_read_nonblocking, p_write_nonblocking, p_get,
                 p_peer_wrote, p_pipe, p_buffer, p_seen, p_retry, p_puts>>
  /\ UNCHANGED <<svars, tvars, wvars, evars, rvars, bvars, cvars, mvars, nvars>>

\* the peer writes a line to the read pipe
PeerWrites ==
  /\ p_pc = "open"
  /\ ~p_peer_wrote
  /\ p_peer_wrote' = TRUE
  /\ UNCHANGED <<p_pc, p_read_nonblocking, p_write_nonblocking, p_get,
                 p_clock, p_pipe, p_buffer, p_seen, p_retry, p_puts>>
  /\ UNCHANGED <<svars, tvars, wvars, evars, rvars, bvars, cvars, mvars, nvars>>

\* put(obj, block, timeout) by _write_with_timeout or _write_non_blocking,
\* and one more turn of the loop of a put without timeout
PipePut(frame, block, timed) ==
  /\ p_pc = "open"
  /\ p_retry = <<>> => Len(p_puts) < MaxPuts
  /\ p_retry # <<>> => (frame = p_retry /\ block /\ ~timed)
  /\ Len(p_seen) <= 2 * PipeRoom
  /\ LET pending == p_buffer \o frame
         room == PipeRoom - Len(p_pipe)
         n == IF Len(pending) <= room THEN Len(pending) ELSE room
         rest == SubSeq(pending, n + 1, Len(pending))
         kept == SubSeq(rest, 1, IF Len(rest) <= PipeRoom THEN Len(rest)
                                 ELSE PipeRoom)
     IN IF ~p_write_nonblocking
        THEN \* the write waits for room in the pipe
             /\ Len(pending) <= PipeRoom - Len(p_pipe)
             /\ p_pipe' = p_pipe \o pending
             /\ p_buffer' = <<>>
             /\ p_puts' = Append(p_puts, [frame |-> frame, outcome |-> "ok"])
             /\ UNCHANGED p_retry
        ELSE /\ p_pipe' = p_pipe \o SubSeq(pending, 1, n)
             /\ IF rest = <<>>
                THEN /\ p_buffer' = <<>>
                     /\ p_retry' = <<>>
                     /\ p_puts' =
                          Append(p_puts, [frame |-> frame, outcome |-> "ok"])
                ELSE /\ \E b \in {kept, <<>>} : p_buffer' = b
                     /\ p_retry' = IF block /\ ~timed THEN frame ELSE <<>>
                     /\ p_puts' =
                          IF block /\ ~timed THEN p_puts
                          ELSE Append(p_puts,
                                      [frame |-> frame,
                                       outcome |->
                                         IF block THEN "TimeoutError"
                                         ELSE "BlockingIOError"])
  /\ UNCHANGED <<p_pc, p_read_nonblocking, p_write_nonblocking, p_get,
                 p_clock, p_peer_wrote, p_seen>>
  /\ UNCHANGED <<svars, tvars, wvars, evars, rvars, bvars, cvars, mvars, nvars>>

\* the peer reads what the write pipe holds
PeerReads ==
  /\ p_pipe # <<>>
  /\ p_seen' = p_seen \o p_pipe
  /\ p_pipe' = <<>>
  /\ UNCHANGED <<p_pc, p_read_nonblocking, p_write_nonblocking, p_get,
                 p_clock, p_peer_wrote, p_buffer, p_retry, p_puts>>
  /\ UNCHANGED <<svars, tvars, wvars, evars, rvars, bvars, cvars, mvars, nvars>>

NextPipe ==
  \/ Open
  \/ read_with_timeout
  \/ Tick
  \/ PeerWrites
  \/ \E frame \in PipeFrames, block \in BOOLEAN, timed \in BOOLEAN :
       PipePut(frame, block, timed)
  \/ PeerReads

SpecPipe == InitIdle /\ [][NextPipe]_vars

(***************************************************************************)
(* C21.  A blocking get with a finite timeout, issued while the peer       *)
(* writes nothing, has failed with TimeoutError once the timeout has       *)
(* elapsed.  The code tests the elapsed time only when readline raises     *)
(* BlockingIOError: on a blocking pipe readline waits as long as the peer  *)
(* is silent, on a pipe with O_NONBLOCK it returns '' and the get fails    *)
(* with EOFError at once.                                                  *)
(***************************************************************************)
C21_GetTimesOut ==
  (p_get # "idle" /\ ~p_peer_wrote /\ p_clock > GetTimeout) =>
    p_get = "TimeoutError"

(***************************************************************************)
(* C22.  What the peer finds on the wire is exactly the frames of the puts *)
(* that succeeded, each whole and once, and nothing of a put that failed   *)
(* with BlockingIOError or TimeoutError.  A flush that would block has     *)
(* already written the head of the frame.                                  *)
(***************************************************************************)
C22_Wire == p_seen \o p_pipe

C22_FramesPut ==
  LET F[i \in 0..Len(p_puts)] ==
        IF i = 0 THEN <<>>
        ELSE IF p_puts[i].outcome = "ok" THEN F[i - 1] \o p_puts[i].frame
        ELSE F[i - 1]
  IN F[Len(p_puts)]

C22_WholeFramesOnly == p_retry = <<>> => C22_Wire = C22_FramesPut

\* the part that holds: on a write pipe without O_NONBLOCK no write would
\* block in this sense, and the wire holds the frames put
C22_BlockingPipeWholeFrames == ~p_write_nonblocking => C22_Wire = C22_FramesPut

(***************************************************************************)
(* The writers of the out pipe.  Every frame is handed to the text layer   *)
(* by one write call, followed by a flush; the calls of two threads        *)
(* interleave freely.  A write call adds its text to the buffer in one     *)
(* piece and may flush the buffer itself.                                  *)
(***************************************************************************)
\* the frame of a call: a reply, or an outbound request with its own id
WriterFrame(call) ==
  CASE call = "send_response" -> Serialized(JBool(TRUE))
    [] call = "async_request" -> Serialized(JInt(305))
    [] OTHER -> Serialized(JInt(-12))

\* write_pipe.write(data) on the text held so far
TextWriteSplit(buffer, data) ==
  IF buffer = <<>> THEN data ELSE <<Head(buffer)>> \o data \o Tail(buffer)
TextWrite(buffer, data) == buffer \o data

\* send_response or async_request on the dispatch thread, request on the
\* other thread: json.dumps(message) + "\n" is written
WriteFrame(thread, call) ==
  /\ c_pc[thread] = "idle"
  /\ Len(c_frames) < MaxWrites
  /\ (call = "request") = (thread = "other")
  /\ c_frames' = Append(c_frames, WriterFrame(call))
  /\ c_pc' = [c_pc EXCEPT ![thread] = "written"]
  /\ \E flushes \in BOOLEAN :
       LET text == TextWrite(c_buffer, WriterFrame(call))
       IN IF flushes
          THEN c_wire' = c_wire \o text /\ c_buffer' = <<>>
          ELSE c_buffer' = text /\ UNCHANGED c_wire
  /\ UNCHANGED <<svars, tvars, wvars, evars, rvars, bvars, pvars, mvars, nvars>>

\* ... and flushed
FlushFrame(thread) ==
  /\ c_pc[thread] = "written"
  /\ c_pc' = [c_pc EXCEPT ![thread] = "idle"]
  /\ c_wire' = c_wire \o c_buffer
  /\ c_buffer' = <<>>
  /\ UNCHANGED c_frames
  /\ UNCHANGED <<svars, tvars, wvars, evars, rvars, bvars, pvars, mvars, nvars>>

NextWriters ==
  \/ \E thread \in {"dispatch", "other"},
        call \in {"send_response", "async_request", "request"} :
       WriteFrame(thread, call)
  \/ \E thread \in {"dispatch", "other"} : FlushFrame(thread)

SpecWriters == InitIdle /\ [][NextWriters]_vars

(***************************************************************************)
(* C23.  Under every interleaving of the writes and flushes of the two     *)
(* threads, the text of the out pipe is a sequence of whole frames: each   *)
(* line is one of the frames written, each frame written is there once,    *)
(* and once every flush is done no frame is left behind.                   *)
(***************************************************************************)
\* the lines of a text, a last piece without newline counted as a line
RECURSIVE C23_Lines(_)
C23_Lines(w) ==
  IF w = <<>> THEN <<>>
  ELSE IF ~HasLine(w) THEN <<w>>
  ELSE <<ReadLine(w)>>
         \o C23_Lines(SubSeq(w, Len(ReadLine(w)) + 1, Len(w)))

SpecLive == Spec /\ \A t \in 1..MaxIn : WF_vars(ResumeGreet(t))

\* task t is suspended in await self.async_request(...)
C24_Suspended(t) == t \in 1..Len(tasks) /\ tasks[t].pc = "awaiting"

\* C24, the loop keeps routing: while a handler is suspended in
\* async_request with its reply not yet routed, and no task waits for its
\* first step, a message in the in pipe can be read and routed by the
\* dispatch loop, as a reply, a discarded reply or a new request; a message
\* with the id of the awaited call, its timeout not yet fired, as its reply.
C24_LoopKeepsRouting ==
  \A t \in 1..MaxIn :
    ( /\ C24_Suspended(t)
      /\ LoopRuns /\ running
      /\ in_pipe # <<>>
      /\ \A u \in 1..Len(tasks) : tasks[u].pc \in {"awaiting", "done"}
      /\ \A u \in 1..Len(tasks) :
           tasks[u].pc = "awaiting" => ~calls[tasks[u].call].fut_done )
    => /\ ENABLED (ServerLoopReply \/ ServerLoopDiscard \/ ServerLoopRequest)
       /\ ( /\ GetId(Head(in_pipe)) = calls[tasks[t].call].id
            /\ ~calls[tasks[t].call].fut_cancelled )
            => ENABLED ServerLoopReply

\* C24, the handler resumes: a handler suspended in async_request whose
\* reply was routed before the timeout ends, and when the inbound request
\* had an id exactly one reply with that id is written, carrying the result
\* of the peer's reply when it has one.
C24_ReplyResumesHandler ==
  \A t \in 1..MaxIn :
    (C24_Suspended(t) /\ calls[tasks[t].call].fut_done)
      ~> ( /\ t \in 1..Len(tasks)
           /\ tasks[t].pc = "done"
           /\ tasks[t].call \in 1..Len(calls)
           /\ calls[tasks[t].call].state # "timeout"
           /\ tasks[t].request_id # NoneId =>
                /\ Len(Replies(t)) = 1
                /\ GetId(Replies(t)[1]) = tasks[t].request_id
                /\ "result" \in calls[tasks[t].call].fut_msg.has =>
                     /\ "result" \in Replies(t)[1].has
                     /\ Replies(t)[1].result
                          = calls[tasks[t].call].fut_msg.result )

\* C24: an inbound request and the nested outbound call it makes never
\* deadlock: the loop keeps routing while the handler is suspended, and a
\* reply routed before the timeout resumes the handler, whose own reply is
\* then sent.
C24_NoDeadlock == [](C24_LoopKeepsRouting) /\ C24_ReplyResumesHandler

C24_Witness ==
  \E t \in 1..Len(tasks) :
    /\ tasks[t].pc = "done" /\ tasks[t].command = "greet"
    /\ tasks[t].request_id # NoneId
    /\ calls[tasks[t].call].state = "returned"
    /\ Len(Replies(t)) = 1
    /\ "result" \in Replies(t)[1].has
    /\ Replies(t)[1].result = "howdy"


\* the reply to the call task t is blocked in has been written by the host
C25_ReplyArrived(t) ==
  /\ tasks[t].pc = "blocked"
  /\ in_pipe # <<>>
  /\ GetId(Head(in_pipe)) = calls[tasks[t].call].id

\* C25 as claimed: a synchronous request made by a handler, on the dispatch
\* thread, whose reply has arrived when the call ends, ends by returning
\* that reply.
C25_SyncRequestGetsReply ==
  [][\A t \in 1..Len(tasks) :
       (C25_ReplyArrived(t) /\ calls'[tasks[t].call].state # "waiting")
         => /\ calls'[tasks[t].call].state = "returned"
            /\ calls'[tasks[t].call].fut_msg = Head(in_pipe)]_vars

\* What the code does: every synchronous request made on the dispatch
\* thread that has ended ended with TimeoutError, its reply unread or
\* discarded, and the handler's reply is the error reply.
C25_SyncRequestTimesOut ==
  \A k \in 1..Len(calls) :
    (calls[k].api = "request" /\ calls[k].thread = "loop"
       /\ calls[k].state # "waiting")
      => /\ calls[k].state = "timeout"
         /\ ~calls[k].fut_done
         /\ calls[k].exc = TimeoutError("Lookup")


\* the dispatch loop takes a message with the child's prefix off the in pipe
C26_OwnMessageRead ==
  /\ in_pipe # <<>>
  /\ in_pipe' = Tail(in_pipe)
  /\ HasPyPrefix(GetId(Head(in_pipe)))

\* the message is not dispatched and not answered
C26_NoDispatch ==
  /\ tasks' = tasks
  /\ out_pipe' = out_pipe
  /\ command_handlers' = command_handlers
  /\ default_handler' = default_handler

\* C26 as claimed: a message with the prefix "py-" is never dispatched and
\* never answered; when its id is in pending the awaiter is removed and
\* completed, once, with the full message, and otherwise pending, the
\* handlers and the out pipe are left as they were.
C26_OwnMessageCompletesAwaiter ==
  [][C26_OwnMessageRead =>
       LET message == Head(in_pipe)
           id == GetId(message)
       IN /\ C26_NoDispatch
          /\ IF id \in DOMAIN response_futures
             THEN LET k == response_futures[id]
                  IN /\ response_futures' = Forget(response_futures, id)
                     /\ ~calls[k].fut_done
                     /\ calls' = [calls EXCEPT ![k].fut_done = TRUE,
                                               ![k].fut_msg = message]
             ELSE /\ response_futures' = response_futures
                  /\ calls' = calls]_vars

\* What the code does: the same, except that an awaiter whose future the
\* timeout has already cancelled is removed without being completed.
C26_OwnMessageCompletesUnlessCancelled ==
  [][C26_OwnMessageRead =>
       LET message == Head(in_pipe)
           id == GetId(message)
       IN /\ C26_NoDispatch
          /\ IF id \in DOMAIN response_futures
             THEN LET k == response_futures[id]
                  IN /\ response_futures' = Forget(response_futures, id)
                     /\ ~calls[k].fut_done
                     /\ calls' = IF calls[k].fut_cancelled THEN calls
                                 ELSE [calls EXCEPT ![k].fut_done = TRUE,
                                                    ![k].fut_msg = message]
             ELSE /\ response_futures' = response_futures
                  /\ calls' = calls]_vars


\* call k has ended: its caller has the reply or the exception
C27_Ended(k) == calls[k].state # "waiting"

\* C27: pending holds no entry for the id of a call that has ended, by a
\* reply, by a timeout or by a failed send; hence pending is empty whenever
\* no call is in flight.
C27_EndedCallsForgotten ==
  /\ \A k \in 1..Len(calls) :
       C27_Ended(k) => calls[k].id \notin DOMAIN response_futures
  /\ (\A k \in 1..Len(calls) : C27_Ended(k)) => response_futures = <<>>

C27_Witness ==
  /\ Len(calls) = 2
  /\ \E k, j \in 1..2 :
       /\ calls[k].state = "timeout"
       /\ calls[j].state = "failed" /\ calls[j].exc.cls = "RuntimeError"
       /\ calls[j].exc.msg = "Error sending request"
  /\ response_futures = <<>>

\* a call ended by its reply, the only other call still in flight
C27_WitnessReply ==
  /\ Len(calls) = 2
  /\ calls[1].state = "returned" /\ calls[1].fut_done
  /\ calls[2].state = "waiting"
  /\ DOMAIN response_futures = {calls[2].id}


(***************************************************************************)
(* Minting a correlation id, step by step.  request and async_request      *)
(* begin with the same block:                                              *)
(*     with self._lock:                                                    *)
(*         request_id = f"py-{self._next_request_id}"                      *)
(*         self._next_request_id += 1                                      *)
(* The += is a load and a store; a thread may be pre-empted between any    *)
(* two steps, and only the lock keeps the others out of the block.         *)
(***************************************************************************)
MintThreads == {"dispatch", "other1", "other2"}

\* threading.Lock: acquire goes through when no thread holds the lock
LockIgnored(lock) == TRUE

LockFree(lock) == lock = NoneStr

\* with self._lock: on entry
LockAcquire(th) ==
  /\ m_pc[th] = "idle"
  /\ Len(m_minted) + Cardinality({t \in MintThreads : m_pc[t] # "idle"})
       < MaxMints
  /\ LockFree(m_lock)
  /\ m_lock' = th
  /\ m_pc' = [m_pc EXCEPT ![th] = "locked"]
  /\ UNCHANGED <<m_next, m_id, m_load, m_minted>>
  /\ UNCHANGED <<svars, tvars, wvars, evars, rvars, bvars, pvars, cvars, nvars>>

\* request_id = f"py-{self._next_request_id}"
FormatId(th) ==
  /\ m_pc[th] = "locked"
  /\ m_id' = [m_id EXCEPT ![th] = PyId(m_next)]
  /\ m_pc' = [m_pc EXCEPT ![th] = "formatted"]
  /\ UNCHANGED <<m_lock, m_next, m_load, m_minted>>
  /\ UNCHANGED <<svars, tvars, wvars, evars, rvars, bvars, pvars, cvars, nvars>>

\* self._next_request_id += 1: the load
LoadCounter(th) ==
  /\ m_pc[th] = "formatted"
  /\ m_load' = [m_load EXCEPT ![th] = m_next]
  /\ m_pc' = [m_pc EXCEPT ![th] = "loaded"]
  /\ UNCHANGED <<m_lock, m_next, m_id, m_minted>>
  /\ UNCHANGED <<svars, tvars, wvars, evars, rvars, bvars, pvars, cvars, nvars>>

\* self._next_request_id += 1: the store
StoreCounter(th) ==
  /\ m_pc[th] = "loaded"
  /\ m_next' = m_load[th] + 1
  /\ m_pc' = [m_pc EXCEPT ![th] = "stored"]
  /\ UNCHANGED <<m_lock, m_id, m_load, m_minted>>
  /\ UNCHANGED <<svars, tvars, wvars, evars, rvars, bvars, pvars, cvars, nvars>>

\* with self._lock: on exit; the call goes on with its request_id
LockRelease(th) ==
  /\ m_pc[th] = "stored"
  /\ m_lock' = NoneStr
  /\ m_minted' = Append(m_minted, [thread |-> th, id |-> m_id[th]])
  /\ m_pc' = [m_pc EXCEPT ![th] = "idle"]
  /\ UNCHANGED <<m_next, m_id, m_load>>
  /\ UNCHANGED <<svars, tvars, wvars, evars, rvars, bvars, pvars, cvars, nvars>>

NextMint ==
  \/ \E th \in MintThreads : LockAcquire(th)
  \/ \E th \in MintThreads : FormatId(th)
  \/ \E th \in MintThreads : LoadCounter(th)
  \/ \E th \in MintThreads : StoreCounter(th)
  \/ \E th \in MintThreads : LockRelease(th)

SpecMint == InitIdle /\ [][NextMint]_vars

\* the threads that have formatted an id and not yet left the block
C28_Inside ==
  {t \in MintThreads : m_pc[t] \in {"formatted", "loaded", "stored"}}

\* the ids minted, by the calls that left the block and by the threads still
\* inside it, are pairwise distinct
C28_Distinct ==
  /\ \A i, j \in 1..Len(m_minted) :
       i # j => m_minted[i].id # m_minted[j].id
  /\ \A t \in C28_Inside :
       \A i \in 1..Len(m_minted) : m_id[t] # m_minted[i].id
  /\ \A t, u \in C28_Inside : t # u => m_id[t] # m_id[u]

\* each starts with "py-"
C28_Prefix ==
  /\ \A i \in 1..Len(m_minted) : HasPyPrefix(m_minted[i].id)
  /\ \A t \in C28_Inside : HasPyPrefix(m_id[t])

\* C28: the ids minted by request and async_request on one server are
\* pairwise distinct under every interleaving of the steps of callers on
\* different threads, each starts with "py-", and no step decreases the
\* counter they are drawn from.
C28_IdsDistinct ==
  [](C28_Distinct /\ C28_Prefix) /\ [][m_next' >= m_next]_vars

C28_Witness ==
  /\ Len(m_minted) = 3
  /\ {m_minted[i].thread : i \in 1..3} = MintThreads
  /\ m_minted[1].thread = "other2"
  /\ m_pc["other1"] = "formatted"
  /\ m_id["other1"] = PyId(3)
  /\ m_next = 3


(***************************************************************************)
(* The server shut down with handlers in flight: the host asks for greet   *)
(* and for shutdown, and answers the calls of the child whenever they are  *)
(* in flight.                                                              *)
(***************************************************************************)
\* the host writes the reply to a call whose awaiter is in pending
HostAnswers ==
  /\ in_pipe = <<>>
  /\ ~in_closed
  /\ \E id \in DOMAIN response_futures :
       in_pipe' = <<HostReply(id, TRUE)>>
  /\ UNCHANGED <<tvars, wvars, ovars>>
  /\ UNCHANGED <<running, loop_alive, stop_scheduled, exited, command_handlers,
                 default_handler, response_futures, next_request_id,
                 in_closed, eof_reads, host_sent,
                 out_pipe, out_by, tasks, calls, discarded>>

NextShutdown ==
  \/ \E c \in {"greet", "shutdown"}, id \in HostIds : HostSend(HostRequest(c, id))
  \/ HostAnswers
  \/ ServerLoopReply
  \/ ServerLoopDiscard
  \/ ServerLoopRequest
  \/ \E t \in 1..Len(tasks) : RunShutdown(t)
  \/ \E t \in 1..Len(tasks) : RunGreet(t)
  \/ \E t \in 1..Len(tasks) : ResumeGreet(t)
  \/ \E t \in 1..Len(tasks) : TimeoutGreet(t)
  \/ \E t \in 1..Len(tasks) : TimeoutRaise(t)
  \/ LoopStop

SpecShutdown == Init /\ [][NextShutdown]_vars

\* the loop, as long as it runs, takes its turns: it routes a reply it has
\* read and resumes a task whose future is done
SpecShutdownLive ==
  /\ SpecShutdown
  /\ WF_vars(ServerLoopReply)
  /\ \A t \in 1..MaxIn : WF_vars(ResumeGreet(t))

\* _handle_shutdown has run
C29_ShutdownProcessed ==
  \E u \in 1..Len(tasks) :
    /\ tasks[u].command = "shutdown" /\ tasks[u].pc = "done"
    /\ tasks[u].via = "specific"

\* handler t is in flight, and the reply it awaits has been written
C29_InFlightReplied(t) ==
  /\ C24_Suspended(t)
  /\ ~calls[tasks[t].call].fut_cancelled
  /\ in_pipe # <<>>
  /\ Head(in_pipe) = HostReply(calls[tasks[t].call].id, TRUE)

\* C29 as claimed: a handler in flight when shutdown is processed is given
\* the reply it awaits and sends its own reply.
C29_GracefulShutdown ==
  \A t \in 1..MaxIn :
    (C29_ShutdownProcessed /\ C29_InFlightReplied(t))
      ~> ( /\ t \in 1..Len(tasks)
           /\ tasks[t].pc = "done"
           /\ tasks[t].call \in 1..Len(calls)
           /\ calls[tasks[t].call].state = "returned" )

\* What the code does: once shutdown is processed no reply is routed to a
\* handler in flight: its future is never completed.
C29_NoReplyAfterShutdown ==
  [][C29_ShutdownProcessed =>
       \A k \in 1..Len(calls) : calls'[k].fut_done = calls[k].fut_done]_vars


(***************************************************************************)
(* The server as the program that owns it drives it: start, stop,          *)
(* register_handler and request called from the program's threads, while   *)
(* the host sends requests, shutdown among them.                           *)
(***************************************************************************)
\* start(): nothing when running; otherwise running is set and a new thread
\* runs _run_event_loop on self.loop.  run_forever starts a loop that had
\* stopped; on a loop that still runs (its stop scheduled and not yet taken)
\* it raises in the new thread and the loop goes on to its stop.
start ==
  /\ ~exited
  /\ ~running
  /\ running' = TRUE
  /\ loop_alive' = TRUE
  /\ UNCHANGED <<tvars, wvars, ovars>>
  /\ UNCHANGED <<stop_scheduled, exited, command_handlers, default_handler,
                 response_futures, next_request_id, in_pipe, in_closed,
                 eof_reads, host_sent, out_pipe, out_by, tasks, calls,
                 discarded>>

\* stop(): running is cleared, and loop.stop is scheduled when
\* self.loop.is_running()
stop ==
  /\ ~exited
  /\ running' = FALSE
  /\ stop_scheduled' = (stop_scheduled \/ loop_alive)
  /\ UNCHANGED <<tvars, wvars, ovars>>
  /\ UNCHANGED <<loop_alive, exited, command_handlers, default_handler,
                 response_futures, next_request_id, in_pipe, in_closed,
                 eof_reads, host_sent, out_pipe, out_by, tasks, calls,
                 discarded>>

\* register_handler(command, handler) with a synchronous handler that
\* returns a value: it is wrapped and stored under the command
register_handler(command) ==
  /\ ~exited
  /\ command_handlers' = (command :> "add") @@ command_handlers
  /\ UNCHANGED <<tvars, wvars, ovars>>
  /\ UNCHANGED <<running, loop_alive, stop_scheduled, exited, default_handler,
                 response_futures, next_request_id, in_pipe, in_closed,
                 eof_reads, host_sent, out_pipe, out_by, tasks, calls,
                 discarded>>

NextLifecycle ==
  \/ \E c \in {"add", "nope", "shutdown"}, id \in HostIds :
       HostSend(HostRequest(c, id))
  \/ ServerLoopRequest
  \/ \E t \in 1..Len(tasks) : RunHandler(t)
  \/ \E t \in 1..Len(tasks) : RunDefaultHandler(t)
  \/ \E t \in 1..Len(tasks) : RunUnknown(t)
  \/ \E t \in 1..Len(tasks) : RunShutdown(t)
  \/ LoopStop
  \/ start
  \/ stop
  \/ register_handler("nope")
  \/ RequestStart
  \/ \E k \in 1..Len(calls) : RequestRun(k)
  \/ \E k \in 1..Len(calls) : RequestGiveUp(k)

SpecLifecycle == Init /\ [][NextLifecycle]_vars

\* C30 as claimed: once shutdown has been processed running never becomes
\* true again and no inbound message is dispatched to a handler, whatever
\* is called on the server afterwards.
C30_StoppedIsTerminal ==
  [][C29_ShutdownProcessed => (~running' /\ tasks' = tasks)]_vars

\* What the code does: after shutdown only start sets running again, and
\* a message is dispatched only while running is set; with start the
\* dispatch of inbound messages resumes.
C30_StoppedUntilStart ==
  [][C29_ShutdownProcessed =>
       /\ (running' /\ ~running) => start
       /\ Len(tasks') > Len(tasks) => (running /\ loop_alive)]_vars

\* a request dispatched to a handler registered after shutdown, by a server
\* started again
C30_Revived ==
  /\ C29_ShutdownProcessed
  /\ running /\ loop_alive
  /\ \E t \in 1..Len(tasks) :
       /\ tasks[t].command = "nope" /\ tasks[t].pc = "done"
       /\ tasks[t].via = "specific"
       /\ tasks[t].outcome = Returned(PyScalar("sum"))


(***************************************************************************)
(* The blocking get of JSONQueue, turn by turn of its loop, while the peer *)
(* writes two lines in pieces of any size.  read_pipe.readline returns the *)
(* characters up to the first newline; when no whole line is there, a      *)
(* blocking text pipe waits, a text pipe with O_NONBLOCK returns what is   *)
(* there ('' when nothing is), and a stream over a raw descriptor returns  *)
(* what is there and raises BlockingIOError when nothing is.               *)
(***************************************************************************)
PeerLines == <<Serialized(JInt(305)), Serialized(JBool(TRUE))>>

Readers == {"blocking", "nonblocking", "raising"}

\* the number of newlines in a text
RECURSIVE Newlines(_)
Newlines(s) ==
  IF s = <<>> THEN 0
  ELSE (IF s[1] = NL THEN 1 ELSE 0) + Newlines(Tail(s))

\* JSONQueue(read_pipe, write_pipe)
OpenReader(reader) ==
  /\ l_pc = "new"
  /\ l_pc' = "open"
  /\ l_reader' = reader
  /\ l_todo' = PeerLines[1] \o PeerLines[2]
  /\ UNCHANGED <<l_pipe, l_get, l_buffer, l_start, l_elapsed, l_read,
                 l_results>>
  /\ UNCHANGED <<svars, tvars, wvars, evars, rvars, bvars, pvars, cvars,
                 mvars, dvars, qvars, kvars, hvars>>

\* the peer writes the next n characters of its lines
PeerWritesPiece(n) ==
  /\ l_pc = "open"
  /\ n \in 1..Len(l_todo)
  /\ l_pipe' = l_pipe \o SubSeq(l_todo, 1, n)
  /\ l_todo' = SubSeq(l_todo, n + 1, Len(l_todo))
  /\ UNCHANGED <<l_pc, l_reader, l_get, l_buffer, l_start, l_elapsed,
                 l_read, l_results>>
  /\ UNCHANGED <<svars, tvars, wvars, evars, rvars, bvars, pvars, cvars,
                 mvars, dvars, qvars, kvars, hvars>>

\* get(block=True, timeout=GetTimeout) is called: start_time, buffer = ""
GetBegin ==
  /\ l_pc = "open"
  /\ l_get = "idle"
  /\ Len(l_results) < MaxGets
  /\ l_get' = "reading"
  /\ l_buffer' = <<>>
  /\ l_start' = l_read
  /\ l_elapsed' = 0
  /\ UNCHANGED <<l_pc, l_reader, l_todo, l_pipe, l_read, l_results>>
  /\ UNCHANGED <<svars, tvars, wvars, evars, rvars, bvars, pvars, cvars,
                 mvars, dvars, qvars, kvars, hvars>>

\* the get ends: what it hands to its caller, the line it began at and the
\* characters it had taken from the pipe
GetEnds(outcome, taken) ==
  /\ l_get' = "idle"
  /\ l_buffer' = <<>>
  /\ l_results' =
       Append(l_results,
              [got |-> outcome, line |-> l_start + 1, taken |-> taken])

\* one turn of the loop of _read_with_timeout; the sleep of a turn that
\* found nothing lets the clock advance
ReadlineTurn ==
  /\ l_get = "reading"
  /\ LET whole == Newlines(l_pipe) > 0
         chunk == IF whole THEN ReadLine(l_pipe) ELSE l_pipe
         buffer == l_buffer \o chunk
     IN /\ (l_reader = "blocking") => whole
        /\ l_pipe' = SubSeq(l_pipe, Len(chunk) + 1, Len(l_pipe))
        /\ l_read' = l_read + (IF whole THEN 1 ELSE 0)
        /\ IF chunk = <<>>
           THEN IF l_reader = "nonblocking"
                THEN /\ GetEnds(GotError("EOFError"), l_buffer)
                     /\ UNCHANGED l_elapsed
                ELSE IF l_elapsed >= GetTimeout
                THEN /\ GetEnds(GotError("TimeoutError"), l_buffer)
                     /\ UNCHANGED l_elapsed
                ELSE /\ l_elapsed' = l_elapsed + 1
                     /\ UNCHANGED <<l_get, l_buffer, l_results>>
           ELSE IF whole
           THEN /\ GetEnds(Loads(Strip(buffer)), buffer)
                /\ UNCHANGED l_elapsed
           ELSE /\ l_buffer' = buffer
                /\ UNCHANGED <<l_get, l_elapsed, l_results>>
  /\ UNCHANGED <<l_pc, l_reader, l_todo, l_start>>
  /\ UNCHANGED <<svars, tvars, wvars, evars, rvars, bvars, pvars, cvars,
                 mvars, dvars, qvars, kvars, hvars>>

NextReader ==
  \/ \E reader \in Readers : OpenReader(reader)
  \/ \E n \in 1..Len(PeerLines[1] \o PeerLines[2]) : PeerWritesPiece(n)
  \/ GetBegin
  \/ ReadlineTurn

SpecReader == InitIdle /\ [][NextReader]_vars

(***************************************************************************)
(* C31.  The characters of an incomplete line that a blocking get has      *)
(* taken before it failed with TimeoutError are not lost: the next get     *)
(* that does not time out returns the value of the whole line.  The get    *)
(* keeps what it has read in a local variable, which the raise discards.   *)
(***************************************************************************)
C31_TimedOutWithPiece(i) ==
  /\ l_results[i].got = GotError("TimeoutError")
  /\ l_results[i].taken # <<>>

C31_PieceNotLost ==
  \A i \in 1..(Len(l_results) - 1) :
    (C31_TimedOutWithPiece(i)
       /\ l_results[i + 1].got # GotError("TimeoutError")) =>
      l_results[i + 1].got = Loads(Strip(PeerLines[l_results[i].line]))

\* the part that holds: a get that took the whole of a line returns its
\* value, and over a pipe whose readline waits for whole lines the gets
\* return the values of the peer's lines in order and none times out
C31_WholeLinesInOrder ==
  \A i \in 1..Len(l_results) :
    /\ l_reader = "blocking" =>
         l_results[i].got = Loads(Strip(PeerLines[i]))
    /\ (/\ l_results[i].line <= Len(PeerLines)
        /\ l_results[i].taken = PeerLines[l_results[i].line]) =>
         l_results[i].got = Loads(Strip(PeerLines[l_results[i].line]))


(***************************************************************************)
(* The loader of the bootstrap script: the catalog load_program_data       *)
(* builds from the bundle, and the executions of the catalog's modules by  *)
(* the eager load of the top-level names, by import statements and by the  *)
(* prefix walk of the import hook.  A dotted name is the sequence of its   *)
(* parts.  The sources are inert: running one imports nothing.  A module   *)
(* the bundle delivers has a Path that ends with its Name.                 *)
(***************************************************************************)
InitModule == [Name |-> "__init__.py", Source |-> "aW5pdA=="]
SubModule == [Name |-> "sub.py", Source |-> "c3Vi"]

\* a JSON member that holds a list, holds null, or is not there
Absent == [kind |-> "absent", items |-> <<>>]
Null == [kind |-> "null", items |-> <<>>]
List(items) == [kind |-> "list", items |-> items]
Members(lists) == {Absent, Null} \cup {List(l) : l \in lists}

ModuleLists ==
  Members({<<>>, <<InitModule>>, <<SubModule>>, <<InitModule, SubModule>>})

InnerPackages ==
  { [Name |-> "inner", Modules |-> m, Packages |-> Absent] :
      m \in ModuleLists }

JumpbootPackage ==
  [Name |-> "jumpboot", Modules |-> List(<<InitModule>>),
   Packages |-> Absent]

\* the bundles of the checked runs: the jumpboot package and one package
\* with at most one package inside it
Bundles ==
  { [Packages |-> List(<<JumpbootPackage,
                         [Name |-> "pkg", Modules |-> m, Packages |-> p]>>)] :
      m \in ModuleLists,
      p \in Members({<<>>} \cup {<<i>> : i \in InnerPackages}) }

\* module['Name'].split('.')[0]
NameStem(name) ==
  CASE name = "sub.py" -> "sub"
    [] name = "__init__.py" -> "__init__"
    [] OTHER -> name

\* base64.b64encode(b'').decode('utf-8')
EmptySource == ""

\* a catalog, or the exception that ended its construction
Catalog(modules) == [ok |-> TRUE, err |-> "", modules |-> modules]
CatalogError(err) == [ok |-> FALSE, err |-> err, modules |-> EmptyMap]

\* next((m for m in modules if m['Name'] == '__init__.py'), None)
FirstInit(items) ==
  LET found == {i \in 1..Len(items) : items[i].Name = "__init__.py"}
  IN IF found = {} THEN <<>>
     ELSE <<items[CHOOSE i \in found : \A j \in found : i <= j]>>

\* the loop over package['Modules']: every module but __init__.py is
\* entered under the dotted name of the package and its stem
RECURSIVE AddModules(_, _, _)
AddModules(modules, package_name, items) ==
  IF items = <<>> THEN modules
  ELSE AddModules(
         IF items[1].Name # "__init__.py"
         THEN (Append(package_name, NameStem(items[1].Name)) :> items[1])
                @@ modules
         ELSE modules,
         package_name, Tail(items))

\* process_package(package, parent_name) on the catalog so far, and the
\* loop over package['Packages']
RECURSIVE process_package(_, _, _), ProcessPackages(_, _, _)
process_package(catalog, package, parent_name) ==
  LET package_name == Append(parent_name, package.Name)
      init_module == FirstInit(package.Modules.items)
      entry == IF init_module # <<>> THEN init_module[1]
               ELSE [Name |-> "__init__.py", Source |-> EmptySource]
      with_init == (package_name :> entry) @@ catalog.modules
      with_modules ==
        IF package.Modules.kind = "list"
        THEN AddModules(with_init, package_name, package.Modules.items)
        ELSE with_init
  IN IF ~catalog.ok THEN catalog
     ELSE IF package.Modules.kind = "null"
     THEN \* package.get('Modules', []) is None: the generator iterates it
          CatalogError("TypeError")
     ELSE IF package.Packages.kind = "list"
     THEN ProcessPackages(Catalog(with_modules), package.Packages.items,
                          package_name)
     ELSE Catalog(with_modules)

ProcessPackages(catalog, packages, parent_name) ==
  IF packages = <<>> THEN catalog
  ELSE ProcessPackages(process_package(catalog, packages[1], parent_name),
                       Tail(packages), parent_name)

\* load_program_data(program_data), the entry of the main program left out
CatalogOf(program_data) ==
  IF program_data.Packages.kind = "list"
  THEN ProcessPackages(Catalog(EmptyMap), program_data.Packages.items, <<>>)
  ELSE Catalog(EmptyMap)

\* modules = load_program_data(program_data); CustomFinder(modules)
load_program_data(program_data) ==
  /\ d_pc = "start"
  /\ d_bundle' = program_data
  /\ d_catalog' = CatalogOf(program_data)
  /\ d_pc' = IF CatalogOf(program_data).ok THEN "catalog" ELSE "failed"
  /\ d_runs' = [n \in DOMAIN CatalogOf(program_data).modules |-> 0]
  /\ UNCHANGED <<d_loaded, d_sys>>
  /\ UNCHANGED <<svars, tvars, wvars, evars, rvars, bvars, pvars, cvars,
                 mvars, lvars, qvars, kvars, hvars>>

\* the state of the import system: finder.loaded_modules, sys.modules and
\* how many times the source of each name has been executed
ImportState == [loaded |-> d_loaded, sys |-> d_sys, runs |-> d_runs]

\* CustomLoader.exec_module: the source is compiled and executed, and the
\* module is recorded in finder.loaded_modules
exec_module(st, fullname) ==
  [st EXCEPT !.runs[fullname] = @ + 1,
             !.loaded = @ \cup {fullname}]

\* CustomFinder._load_module(fullname): a new module object every time,
\* executed and recorded in loaded_modules, not entered in sys.modules
LoadModule(st, fullname) == exec_module(st, fullname)

\* the first loop of find_spec for a name the catalog does not have
RECURSIVE PrefixWalk(_, _, _)
PrefixWalk(st, fullname, i) ==
  IF i >= Len(fullname) THEN st
  ELSE LET parent_name == SubSeq(fullname, 1, i)
       IN PrefixWalk(
            IF parent_name \notin st.loaded
                 /\ parent_name \in DOMAIN d_catalog.modules
            THEN LoadModule(st, parent_name) ELSE st,
            fullname, i + 1)

\* find_spec(fullname, path): a spec for a name of the catalog, which the
\* import system then executes and enters in sys.modules; the prefix walk
\* and no spec for any other name
FindAndLoad(st, fullname) ==
  IF fullname \in DOMAIN d_catalog.modules
  THEN [exec_module(st, fullname) EXCEPT !.sys = @ \cup {fullname}]
  ELSE PrefixWalk(st, fullname, 1)

\* import fullname: the parents first; a name found in sys.modules is not
\* looked up; the import ends at a name that is not found or whose parent
\* is not a package
RECURSIVE ImportParts(_, _, _)
ImportParts(st, fullname, i) ==
  IF i > Len(fullname) THEN st
  ELSE LET name == SubSeq(fullname, 1, i)
           parent == SubSeq(fullname, 1, i - 1)
       IN IF name \in st.sys THEN ImportParts(st, fullname, i + 1)
          ELSE IF i > 1 /\ d_catalog.modules[parent].Name # "__init__.py"
          THEN st
          ELSE IF name \in DOMAIN d_catalog.modules
          THEN ImportParts(FindAndLoad(st, name), fullname, i + 1)
          ELSE FindAndLoad(st, name)

SetImportState(st) ==
  /\ d_loaded' = st.loaded
  /\ d_sys' = st.sys
  /\ d_runs' = st.runs

\* the eager load of every top-level name of the catalog
RECURSIVE LoadAll(_, _)
LoadAll(st, names) ==
  IF names = {} THEN st
  ELSE LET name == CHOOSE n \in names : TRUE
       IN LoadAll(LoadModule(st, name), names \ {name})

LoadTopLevel ==
  /\ d_pc = "catalog"
  /\ d_pc' = "eager"
  /\ SetImportState(
       LoadAll(ImportState,
               {n \in DOMAIN d_catalog.modules : Len(n) = 1}))
  /\ UNCHANGED <<d_bundle, d_catalog>>
  /\ UNCHANGED <<svars, tvars, wvars, evars, rvars, bvars, pvars, cvars,
                 mvars, lvars, qvars, kvars, hvars>>

\* importlib.import_module('jumpboot')
ImportJumpboot ==
  /\ d_pc = "eager"
  /\ d_pc' = "user"
  /\ SetImportState(ImportParts(ImportState, <<"jumpboot">>, 1))
  /\ UNCHANGED <<d_bundle, d_catalog>>
  /\ UNCHANGED <<svars, tvars, wvars, evars, rvars, bvars, pvars, cvars,
                 mvars, lvars, qvars, kvars, hvars>>

\* the names user code resolves
ImportNames ==
  { <<"jumpboot">>, <<"pkg">>, <<"pkg", "sub">>, <<"pkg", "inner">>,
    <<"pkg", "inner", "sub">>, <<"pkg", "inner", "nothing">> }

\* an import statement in user code
Import(fullname) ==
  /\ d_pc = "user"
  /\ SetImportState(ImportParts(ImportState, fullname, 1))
  /\ UNCHANGED <<d_pc, d_bundle, d_catalog>>
  /\ UNCHANGED <<svars, tvars, wvars, evars, rvars, bvars, pvars, cvars,
                 mvars, lvars, qvars, kvars, hvars>>

\* the import hook asked for a name on its own
find_spec(fullname) ==
  /\ d_pc = "user"
  /\ SetImportState(
       IF fullname \in DOMAIN d_catalog.modules THEN ImportState
       ELSE PrefixWalk(ImportState, fullname, 1))
  /\ UNCHANGED <<d_pc, d_bundle, d_catalog>>
  /\ UNCHANGED <<svars, tvars, wvars, evars, rvars, bvars, pvars, cvars,
                 mvars, lvars, qvars, kvars, hvars>>

NextLoader ==
  \/ \E program_data \in Bundles : load_program_data(program_data)
  \/ LoadTopLevel
  \/ ImportJumpboot
  \/ \E fullname \in ImportNames : Import(fullname)
  \/ \E fullname \in ImportNames : find_spec(fullname)

SpecLoader == InitIdle /\ [][NextLoader]_vars

(***************************************************************************)
(* C32.  A catalog module that has been loaded is cached: its source is    *)
(* executed at most once in the life of the child, through whichever path  *)
(* its name is resolved.  _load_module makes and executes a new module     *)
(* every time and enters it in loaded_modules only, so the first import    *)
(* of a name that was loaded eagerly or by the prefix walk executes its    *)
(* source again.                                                           *)
(***************************************************************************)
C32_ExecutedAtMostOnce ==
  \A n \in DOMAIN d_runs : d_runs[n] <= 1

\* the part that holds: a name that is in sys.modules is not executed
\* again, and no source is executed more than twice
C32_ImportedIsCached ==
  [][\A n \in DOMAIN d_runs :
       /\ n \in d_sys => d_runs'[n] = d_runs[n]
       /\ d_runs'[n] <= 2]_vars


(***************************************************************************)
(* C33.  After load_program_data, every package at every depth of the      *)
(* bundle, one whose Modules member is empty, absent or null included,     *)
(* has an entry under its dotted name that is its __init__ module, with    *)
(* empty source when the bundle delivers none, and building the catalog    *)
(* does not fail.  The search for __init__.py iterates                     *)
(* package.get('Modules', []), which is None when the member is null.      *)
(***************************************************************************)
\* the packages of the bundle with their dotted names
C33_Packages ==
  LET tops == {d_bundle.Packages.items[i] :
                 i \in 1..Len(d_bundle.Packages.items)}
  IN {[name |-> <<p.Name>>, package |-> p] : p \in tops}
       \cup UNION {{[name |-> <<p.Name, q.Name>>, package |-> q] :
                      q \in {p.Packages.items[i] :
                               i \in 1..Len(p.Packages.items)}} :
                   p \in tops}

C33_HasInitEntry(pk) ==
  /\ pk.name \in DOMAIN d_catalog.modules
  /\ d_catalog.modules[pk.name].Name = "__init__.py"
  /\ d_catalog.modules[pk.name].Source =
       IF InitModule \in {pk.package.Modules.items[i] :
                            i \in 1..Len(pk.package.Modules.items)}
       THEN InitModule.Source ELSE EmptySource

C33_EveryPackageHasInit ==
  d_pc # "start" =>
    /\ d_catalog.ok
    /\ \A pk \in C33_Packages : C33_HasInitEntry(pk)

\* the part that holds: the same for a bundle none of whose packages has a
\* null Modules member
C33_NoNullModules ==
  \A pk \in C33_Packages : pk.package.Modules.kind # "null"

C33_InitUnlessNull ==
  (d_pc # "start" /\ C33_NoNullModules) =>
    /\ d_catalog.ok
    /\ \A pk \in C33_Packages : C33_HasInitEntry(pk)


(***************************************************************************)
(* C34.  A submission of one line that begins with                         *)
(* "__CAPTURE_COMBINED__ =" only sets the capture flag to the value of its *)
(* right-hand side and is not executed; the flag in force for an executed  *)
(* submission is the one the most recent toggle set (true before the       *)
(* first), and conrun forwards the output exactly when it is true.  The    *)
(* code evaluates what stands between the first "=" and the next, and a    *)
(* toggle whose evaluation raised stays in code_buffer, in front of the    *)
(* toggles that follow.                                                    *)
(***************************************************************************)
\* the truth of the right-hand side of a toggle, for those that have one
C34_RhsValue ==
  [True |-> TRUE, False |-> FALSE, Differ |-> FALSE]

\* run_repl takes a submission from the in pipe
C34_Takes == r_pc = "reading" /\ r_in # <<>> /\ r_in' = Tail(r_in)

C34_ToggleStep ==
  LET sub == Head(r_in)
  IN (C34_Takes /\ sub.flag \in DOMAIN C34_RhsValue) =>
       /\ r_capture' = C34_RhsValue[sub.flag]
       /\ r_executed' = r_executed
       /\ r_status' = r_status

C34_ExecuteStep ==
  LET sub == Head(r_in)
  IN (C34_Takes /\ sub.flag = "") =>
       /\ r_capture' = r_capture
       /\ r_executed' # r_executed =>
            r_executed'[Len(r_executed')].capture = r_capture

C34_ToggleSetsFlag == [][C34_ToggleStep /\ C34_ExecuteStep]_vars

\* the part that holds: no toggle is executed or gets a status record; a
\* toggle read while code_buffer is empty, and whose right-hand side has
\* no "=", sets the flag to the value of the right-hand side; no other
\* submission changes the flag, and conrun runs with the flag as it is
C34_PlainToggleStep ==
  LET sub == Head(r_in)
  IN (C34_Takes /\ sub.flag # "") =>
       /\ r_executed' = r_executed
       /\ r_status' = r_status
       /\ (~r_stale /\ sub.flag \in {"True", "False"}) =>
            r_capture' = C34_RhsValue[sub.flag]

C34_PlainToggleSetsFlag == [][C34_PlainToggleStep /\ C34_ExecuteStep]_vars


(***************************************************************************)
(* C36.  Each submission is executed from exactly the source between its   *)
(* delimiters: code_buffer and the pending input of the interpreter are    *)
(* empty when a new submission starts, whatever the earlier ones were.     *)
(* A toggle whose right-hand side failed to evaluate stays in code_buffer, *)
(* and conrun leaves the lines of an incomplete statement in the buffer    *)
(* of the interpreter.                                                     *)
(***************************************************************************)
C36_BuffersEmpty ==
  r_pc = "reading" => (~r_stale /\ r_buffer = <<>>)

\* the part that holds: a submission that starts with both buffers empty
\* is executed from its own source, and leaves both empty when it is a
\* toggle that evaluates or has no line that opens a compound statement
C36_OwnSourceStep ==
  LET sub == Head(r_in)
  IN (r_pc = "reading" /\ r_in # <<>> /\ r_in' = Tail(r_in)
        /\ ~r_stale /\ r_buffer = <<>>) =>
       /\ r_executed' # r_executed =>
            /\ r_executed'[Len(r_executed')].source = sub.lines
            /\ r_executed'[Len(r_executed')].buffer = <<>>
       /\ (sub.flag \in {"True", "False", "Differ"}
             \/ (sub.flag = "" /\ \A i \in 1..Len(sub.lines) :
                                    sub.lines[i] # "head")) =>
            (r_pc' = "reading" => (~r_stale' /\ r_buffer' = <<>>))

C36_OwnSourceUnlessLeftover == [][C36_OwnSourceStep]_vars


(***************************************************************************)
(* run_repl when the host closes its end of the in pipe: readline returns  *)
(* '' from then on.                                                        *)
(***************************************************************************)
\* the host closes the in pipe
HostCloseIn ==
  /\ ~q_in_closed
  /\ q_in_closed' = TRUE
  /\ UNCHANGED q_linecount
  /\ UNCHANGED <<svars, tvars, wvars, evars, rvars, bvars, pvars, cvars,
                 mvars, lvars, dvars, kvars, hvars>>

\* one turn of the inner loop of run_repl at the end of the pipe: line is
\* '', which does not end with the delimiter, and the loop goes on
ReadAtEOF ==
  /\ r_pc = "reading"
  /\ r_in = <<>>
  /\ q_in_closed
  /\ q_linecount < MaxSpins
  /\ q_linecount' = q_linecount + 1
  /\ UNCHANGED q_in_closed
  /\ UNCHANGED <<svars, tvars, wvars, evars, rvars, bvars, pvars, cvars,
                 mvars, lvars, dvars, kvars, hvars>>

NextReplEOF ==
  \/ (~q_in_closed /\ r_sent < MaxSubsBeforeEOF /\ HostSubmit)
  \/ HostCloseIn
  \/ HostCloseOut
  \/ run_repl
  \/ ReadAtEOF

SpecReplEOF == InitIdle /\ [][NextReplEOF]_vars

\* run_repl is a running thread: its reading loop takes its turns
SpecReplEOFLive == SpecReplEOF /\ WF_vars(ReadAtEOF)

(***************************************************************************)
(* C37.  When the in pipe reaches its end, run_repl stops reading and      *)
(* terminates.  The inner loop of run_repl tests only whether the line     *)
(* ends with the delimiter: on '' it goes round again.                     *)
(***************************************************************************)
C37_EndOfInputTerminates ==
  (q_in_closed /\ r_in = <<>>) ~> (r_pc = "ended")

\* the part that holds: at the end of the in pipe run_repl executes nothing
\* and writes nothing more, and it stays in its loop unless a write to the
\* closed out pipe had ended it
C37_SpinsAtEnd ==
  [][(q_in_closed /\ r_in = <<>>) =>
       /\ r_executed' = r_executed
       /\ r_status' = r_status
       /\ r_pc' = r_pc]_vars


(***************************************************************************)
(* The _server_loop tasks of one server.  Each start that finds running    *)
(* false makes a thread that creates a task on self.loop and runs the      *)
(* loop.  A task waits for get_message, which reads the in pipe in a       *)
(* thread of its own, and looks at self.running only when the read has     *)
(* returned.  The in pipe is a blocking pipe: a read returns when a line   *)
(* or the end of the stream is there.                                      *)
(***************************************************************************)
LoopCommands == {"add", "shutdown"}

\* the tasks that have not left their while loop
ActiveLoops == {t \in 1..Len(k_loops) : k_loops[t].pc # "ended"}

\* the host writes a line, or closes the in pipe
HostWrites(command) ==
  /\ ~k_eof
  /\ k_sent < MaxIn
  /\ k_in' = Append(k_in, command)
  /\ k_sent' = k_sent + 1
  /\ UNCHANGED <<k_running, k_loop_running, k_loops, k_eof>>
  /\ UNCHANGED <<svars, tvars, wvars, evars, rvars, bvars, pvars, cvars,
                 mvars, lvars, dvars, qvars, hvars>>

HostClosesIn ==
  /\ ~k_eof
  /\ k_eof' = TRUE
  /\ UNCHANGED <<k_running, k_loop_running, k_loops, k_in, k_sent>>
  /\ UNCHANGED <<svars, tvars, wvars, evars, rvars, bvars, pvars, cvars,
                 mvars, lvars, dvars, qvars, hvars>>

\* start(), with _run_event_loop in the thread it makes: nothing when
\* running; else a new task on self.loop, and run_forever, which raises
\* in the new thread when the loop is running in an older one
ServerStart ==
  /\ IF k_running
     THEN UNCHANGED <<k_running, k_loop_running, k_loops>>
     ELSE /\ Len(k_loops) < MaxStarts
          /\ k_running' = TRUE
          /\ k_loops' = Append(k_loops, [pc |-> "reading", got |-> ""])
          /\ k_loop_running' = TRUE
  /\ UNCHANGED <<k_in, k_sent, k_eof>>
  /\ UNCHANGED <<svars, tvars, wvars, evars, rvars, bvars, pvars, cvars,
                 mvars, lvars, dvars, qvars, hvars>>

\* stop(): running is cleared and the loop is stopped; the tasks stay
\* where they are
ServerStop ==
  /\ k_running' = FALSE
  /\ k_loop_running' = FALSE
  /\ UNCHANGED <<k_loops, k_in, k_sent, k_eof>>
  /\ UNCHANGED <<svars, tvars, wvars, evars, rvars, bvars, pvars, cvars,
                 mvars, lvars, dvars, qvars, hvars>>

\* get_message of task t, in its executor thread: the read returns a line,
\* or EOFError, which clears running
GetMessage(t) ==
  /\ t \in 1..Len(k_loops)
  /\ k_loops[t].pc = "reading"
  /\ IF k_in # <<>>
     THEN /\ k_loops' = [k_loops EXCEPT ![t] = [pc |-> "got", got |-> Head(k_in)]]
          /\ k_in' = Tail(k_in)
          /\ UNCHANGED k_running
     ELSE /\ k_eof
          /\ k_loops' = [k_loops EXCEPT ![t] = [pc |-> "got", got |-> "EOF"]]
          /\ k_running' = FALSE
          /\ UNCHANGED k_in
  /\ UNCHANGED <<k_loop_running, k_sent, k_eof>>
  /\ UNCHANGED <<svars, tvars, wvars, evars, rvars, bvars, pvars, cvars,
                 mvars, lvars, dvars, qvars, hvars>>

\* task t of _server_loop resumes after its read, on the running loop: it
\* dispatches the message when there is one and running is set, and goes
\* back to "while self.running"; the shutdown handler it has dispatched
\* clears running and stops the loop when the task waits again
ServerLoopTurn(t) ==
  /\ t \in 1..Len(k_loops)
  /\ k_loop_running
  /\ k_loops[t].pc = "got"
  /\ LET dispatched == k_loops[t].got # "EOF" /\ k_running
         shutdown == dispatched /\ k_loops[t].got = "shutdown"
     IN /\ k_loops' =
             [k_loops EXCEPT ![t] =
                [pc |-> IF k_running THEN "reading" ELSE "ended",
                 got |-> ""]]
        /\ k_running' = (k_running /\ ~shutdown)
        /\ k_loop_running' = (k_loop_running /\ ~shutdown)
  /\ UNCHANGED <<k_in, k_sent, k_eof>>
  /\ UNCHANGED <<svars, tvars, wvars, evars, rvars, bvars, pvars, cvars,
                 mvars, lvars, dvars, qvars, hvars>>

NextLoops ==
  \/ \E command \in LoopCommands : HostWrites(command)
  \/ HostClosesIn
  \/ ServerStart
  \/ ServerStop
  \/ \E t \in 1..MaxStarts : GetMessage(t)
  \/ \E t \in 1..MaxStarts : ServerLoopTurn(t)

SpecLoops == InitIdle /\ [][NextLoops]_vars

(***************************************************************************)
(* C35.  At any time at most one dispatch-loop task is reading from the    *)
(* transport of a server: start while running does nothing, and no         *)
(* sequence of start, stop, shutdown and end-of-stream leaves two active.  *)
(* stop and the shutdown handler stop the loop and leave the task waiting  *)
(* for its read; the next start adds a second task to the same loop.       *)
(***************************************************************************)
C35_AtMostOneLoop == Cardinality(ActiveLoops) <= 1

\* the part that holds: a task is created only by a start that finds
\* running false, and a task whose read returned while running was false
\* leaves its loop
C35_StartWhileRunningStep ==
  /\ k_running => Len(k_loops') = Len(k_loops)
  /\ \A t \in 1..Len(k_loops) :
       (k_loops[t].pc = "got" /\ ~k_running /\ k_loops'[t] # k_loops[t]) =>
         k_loops'[t].pc = "ended"

C35_StartWhileRunningDoesNothing == [][C35_StartWhileRunningStep]_vars


(***************************************************************************)
(* One turn of _server_loop on a line of text: get_message reads and       *)
(* parses it, the loop takes the fields of the message and creates the     *)
(* task of the command, whose reply is written.  The server has the        *)
(* handler "add"; it was started by its constructor.                       *)
(***************************************************************************)
KeyCommand == <<"c", "o", "m", "m", "a", "n", "d">>
KeyData == <<"d", "a", "t", "a">>
KeyRequestId ==
  <<"r", "e", "q", "u", "e", "s", "t", "_", "i", "d">>

\* the messages a host sends: a request with a handler and one without
LineRequest(command, x, id) ==
  JDict(<< <<KeyCommand, JStr(command)>>,
           <<KeyData, JDict(<< <<(<<"x">>), JInt(x)>> >>)>>,
           <<KeyRequestId, JStr(id)>> >>)

GoodLines ==
  { Serialized(LineRequest(<<"a", "d", "d">>, 1, <<"r", "1">>)),
    Serialized(LineRequest(<<"n", "o", "p", "e">>, 2, <<"r", "2">>)) }

\* lines cut short, lines with text after the value, values of other types
BadLines ==
  LET text == Dumps(LineRequest(<<"a", "d", "d">>, 1, <<"r", "1">>))
  IN {SubSeq(text, 1, n) \o <<NL>> : n \in {0, 1, 12, Len(text) - 1}}
       \cup {text \o <<" ", "x", NL>>, <<"n", "o", NL>>}
       \cup {Serialized(v) :
               v \in {JNull, JBool(TRUE), JInt(0), JInt(5), JStr(<<>>),
                      JStr(<<"a", "d", "d">>), JList(<<>>),
                      JList(<<JInt(1), JInt(2)>>),
                      JList(<<LineRequest(<<"a", "d", "d">>, 1,
                                          <<"r", "1">>)>>)}}

\* bool(message)
JsonTruthy(v) ==
  CASE v.t = "null" -> FALSE
    [] v.t = "bool" -> v.b
    [] v.t = "int" -> v.n # 0
    [] v.t = "str" -> v.s # <<>>
    [] v.t = "list" -> v.l # <<>>
    [] v.t = "dict" -> v.m # <<>>
    [] OTHER -> TRUE

\* message.get(key): the value of the last member named key, or None
MessageGet(message, key) ==
  LET at == {i \in 1..Len(message.m) : message.m[i][1] = key}
  IN IF at = {} THEN JNull
     ELSE message.m[CHOOSE i \in at : \A j \in at : j <= i][2]

\* "except Exception" at the end of the loop body
LoopCatchesNothing(exception) == FALSE
LoopCatches(exception) == exception # "CancelledError"

\* _process_command for a request that has an id: the reply of the
\* handler "add", or the error reply for a command without handler
ProcessCommand(command, data, request_id) ==
  IF command = JStr(<<"a", "d", "d">>)
  THEN [result |-> MessageGet(data, <<"x">>).n + 1, request_id |-> request_id]
  ELSE [error |-> "Unknown command", request_id |-> request_id]

\* the host writes a line
HostWritesLine(line) ==
  /\ h_sent < MaxIn
  /\ h_in' = Append(h_in, line)
  /\ h_sent' = h_sent + 1
  /\ UNCHANGED <<h_running, h_read, h_dispatched, h_out>>
  /\ UNCHANGED <<svars, tvars, wvars, evars, rvars, bvars, pvars, cvars,
                 mvars, lvars, dvars, qvars, kvars>>

\* one turn of the while loop of _server_loop, the task it creates run to
\* its reply
ServerLoopLine ==
  /\ h_running
  /\ h_in # <<>>
  /\ h_in' = Tail(h_in)
  /\ h_read' = Append(h_read, Head(h_in))
  /\ LET got == Loads(Strip(Head(h_in)))
         message == got.v
         request_id == MessageGet(message, KeyRequestId)
         raised ==
           IF message.t # "dict" \/ request_id.t \notin {"str", "null"}
           THEN "AttributeError" ELSE ""
     IN IF ~got.ok \/ ~JsonTruthy(message)
        THEN \* get_message returned False, or "if message" is false
             UNCHANGED <<h_running, h_dispatched, h_out>>
        ELSE IF raised # ""
        THEN /\ h_running' = LoopCatches(raised)
             /\ UNCHANGED <<h_dispatched, h_out>>
        ELSE IF JsonTruthy(request_id) /\ StartsWithPy(request_id.s)
        THEN \* a reply to a call nobody waits for
             UNCHANGED <<h_running, h_dispatched, h_out>>
        ELSE /\ h_dispatched' =
                  Append(h_dispatched,
                         [command |-> MessageGet(message, KeyCommand),
                          data |-> MessageGet(message, KeyData),
                          request_id |-> request_id])
             /\ h_out' =
                  IF JsonTruthy(request_id)
                  THEN Append(h_out,
                              ProcessCommand(MessageGet(message, KeyCommand),
                                             MessageGet(message, KeyData),
                                             request_id))
                  ELSE h_out
             /\ UNCHANGED h_running
  /\ UNCHANGED h_sent
  /\ UNCHANGED <<svars, tvars, wvars, evars, rvars, bvars, pvars, cvars,
                 mvars, lvars, dvars, qvars, kvars>>

NextLines ==
  \/ \E line \in GoodLines \cup BadLines : HostWritesLine(line)
  \/ ServerLoopLine

SpecLines == InitIdle /\ [][NextLines]_vars

(***************************************************************************)
(* C38.  An inbound line that is not well-formed JSON, or whose value is   *)
(* not a mapping, is dropped: the dispatch loop does not stop, no handler  *)
(* runs for it, nothing is written for it, and the next well-formed        *)
(* message is dispatched normally.                                         *)
(***************************************************************************)
\* the line is not well-formed JSON, or its value is not a mapping
C38_IsBad(line) ==
  \/ ~Loads(Strip(line)).ok
  \/ Loads(Strip(line)).v.t # "dict"

\* the messages among the lines read, in order
C38_Messages ==
  SelectSeq(h_read, LAMBDA line : ~C38_IsBad(line))

C38_BadLinesDropped ==
  /\ h_running
  /\ Len(h_dispatched) = Len(C38_Messages)
  /\ Len(h_out) = Len(C38_Messages)
  /\ \A i \in 1..Len(C38_Messages) :
       LET message == Loads(Strip(C38_Messages[i])).v
       IN /\ h_dispatched[i].command = MessageGet(message, KeyCommand)
          /\ h_dispatched[i].data = MessageGet(message, KeyData)
          /\ h_dispatched[i].request_id = MessageGet(message, KeyRequestId)
          /\ h_out[i].request_id = MessageGet(message, KeyRequestId)

\* a line with a value that is not a mapping was read and dropped, and the
\* request after it has been dispatched and answered
C38_Witness ==
  /\ Len(h_read) = 2
  /\ h_read[1] = Serialized(JList(<<JInt(1), JInt(2)>>))
  /\ h_read[2] \in GoodLines
  /\ Len(h_dispatched) = 1
  /\ Len(h_out) = 1

\* the same after a line that is not well-formed
C38_WitnessMalformed ==
  /\ Len(h_read) = 2
  /\ ~Loads(Strip(h_read[1])).ok
  /\ h_read[2] \in GoodLines
  /\ Len(h_dispatched) = 1


(***************************************************************************)
(* C39.  request and async_request are the blocking and the awaitable      *)
(* form of one operation: for the same reply of the peer, a result reply   *)
(* or an error reply, both hand the same value to their caller.  request   *)
(* returns what _wait_for_response returns, the whole reply;               *)
(* async_request returns response['result'], and raises KeyError when the  *)
(* reply has no result.                                                    *)
(***************************************************************************)
\* the value request returns for a reply: the message itself
RequestValue(message) == Returned(PyDict(message))

\* the host answers a call whose awaiter is in pending, with a result reply
\* or with an error reply
HostAnswer(ok) ==
  /\ in_pipe = <<>>
  /\ ~in_closed
  /\ \E id \in DOMAIN response_futures :
       in_pipe' = <<HostReply(id, ok)>>
  /\ UNCHANGED <<tvars, wvars, ovars>>
  /\ UNCHANGED <<running, loop_alive, stop_scheduled, exited, command_handlers,
                 default_handler, response_futures, next_request_id,
                 in_closed, eof_reads, host_sent,
                 out_pipe, out_by, tasks, calls, discarded>>

\* greet called by the host and request called by the program, each
\* answered by the host
NextForms ==
  \/ \E id \in HostIds : HostSend(HostRequest("greet", id))
  \/ \E ok \in BOOLEAN : HostAnswer(ok)
  \/ ServerLoopReply
  \/ ServerLoopDiscard
  \/ ServerLoopRequest
  \/ \E t \in 1..Len(tasks) : RunGreet(t)
  \/ \E t \in 1..Len(tasks) : ResumeGreet(t)
  \/ RequestStart
  \/ \E k \in 1..Len(calls) : RequestRun(k)

SpecForms == Init /\ [][NextForms]_vars

\* what the call has handed to its caller, by the form that was called
C39_Handed(k) ==
  IF calls[k].api = "request" THEN RequestValue(calls[k].fut_msg)
  ELSE AsyncValue(calls[k].fut_msg)

\* the call has ended on the reply the peer sent for it
C39_EndedOnReply(k) ==
  /\ calls[k].fut_done
  /\ calls[k].state \in {"returned", "failed"}
  /\ calls[k].exc \notin ForeignLoopErrors

\* the replies of the two calls are the same but for the request id
C39_SameReply(j, k) ==
  LET a == calls[j].fut_msg
      b == calls[k].fut_msg
  IN /\ a.has = b.has
     /\ a.result = b.result
     /\ a.error = b.error

C39_Pair(j, k) ==
  /\ calls[j].api = "request" /\ calls[k].api = "async_request"
  /\ C39_EndedOnReply(j) /\ C39_EndedOnReply(k)
  /\ C39_SameReply(j, k)

C39_SameValueHanded ==
  \A j \in 1..Len(calls), k \in 1..Len(calls) :
    C39_Pair(j, k) =>
      /\ calls[j].state = calls[k].state
      /\ C39_Handed(j) = C39_Handed(k)

\* the part that holds: for a result reply both calls return, and what
\* async_request hands over is the result member of what request hands
\* over; for an error reply request returns the reply and async_request
\* raises KeyError
C39_ResultMemberOfReply ==
  \A j \in 1..Len(calls), k \in 1..Len(calls) :
    C39_Pair(j, k) =>
      /\ calls[j].state = "returned"
      /\ C39_Handed(j).value.d = calls[j].fut_msg
      /\ IF "result" \in calls[k].fut_msg.has
         THEN /\ calls[k].state = "returned"
              /\ C39_Handed(k).value.s = C39_Handed(j).value.d.result
         ELSE /\ calls[k].state = "failed"
              /\ calls[k].exc.cls = "KeyError"

====
